---- MODULE Spec2Model ----
(***************************************************************************)
(* A model of the argument parser of argonaut (src/src/parse.rs): the      *)
(* definition compiler Parse::new and the stepwise scanner Parse::next.    *)
(*                                                                         *)
(* Strings are sequences of one-character strings, so that starts_with,    *)
(* chars().skip(1) and the slice string[2..] are computed as the code      *)
(* computes them.  Indices keep the code's 0-based values; the i-th        *)
(* element of a Rust slice s is s[i + 1] here.                             *)
(***************************************************************************)
EXTENDS Integers, Sequences, FiniteSets, TLC

VARIABLES
    expected,                 \* the definition list given to Parse::new
    args,                     \* Parse.args: the tokens
    index,                    \* Parse.index
    finished,                 \* Parse.finished
    positional,               \* Parse.positional
    next_position,            \* Parse.next_position
    trail,                    \* Parse.trail: "None", "OnePlus" or "ZeroPlus"
    trail_args_found,         \* Parse.trail_args_found
    options,                  \* Parse.options: long name -> OptType
    aliases,                  \* Parse.aliases: char -> long name
    remaining_grouped_shorts, \* Parse.remaining_grouped_shorts
    results,                  \* what the calls of next() returned, in order
    panicked,                 \* a call of next() panicked (the thread unwinds)
    idle,                     \* calls of next() made on a finished parse
    created,                  \* Parse::new has returned
    error,                    \* the DefinitionError Parse::new returned, if any
    remainder_view,           \* what remainder() returned, when it was the last call
    program,                  \* the program label given to parse()
    subcommands,              \* the compiled subcommand names (each names its handler)
    delegation                \* the call of a subcommand handler made by parse(), if any

vars == <<expected, args, index, finished, positional, next_position, trail,
          trail_args_found, options, aliases, remaining_grouped_shorts,
          results, panicked, idle, created, error, remainder_view,
          program, subcommands, delegation>>

(***************************************************************************)
(* Bounds of the model.                                                    *)
(***************************************************************************)
\* the longest token list
MaxArgs == 2
\* the most characters after the dash of a short token
MaxGroup == 2
\* the most calls of next() on a finished parse
MaxIdleCalls == 2
\* the longest definition list given to the compiler alone
MaxDefs == 3
\* the longest token list of repeated flags
MaxRepeatArgs == 4

(***************************************************************************)
(* Strings.                                                                *)
(***************************************************************************)
Dash == "-"
Letters == {"a", "c"}

\* str::starts_with
StartsWith(s, p) == Len(s) >= Len(p) /\ SubSeq(s, 1, Len(p)) = p

\* &string[n..]
SliceFrom(s, n) == SubSeq(s, n + 1, Len(s))

\* Vec::reverse
Reverse(s) == [i \in 1..Len(s) |-> s[Len(s) + 1 - i]]

\* all strings over Letters of length at most n
StringsUpTo(n) == UNION {[1..k -> Letters] : k \in 0..n}

(***************************************************************************)
(* The inputs: definition lists and token lists.                           *)
(***************************************************************************)
NoShort == ""

\* ArgDef::positional(name)
DefPositional(n) == [kind |-> "Positional", name |-> n, short |-> NoShort, trail |-> "None"]
\* ArgDef::required_trail()
DefRequiredTrail == [kind |-> "Trail", name |-> <<>>, short |-> NoShort, trail |-> "OnePlus"]
\* ArgDef::optional_trail()
DefOptionalTrail == [kind |-> "Trail", name |-> <<>>, short |-> NoShort, trail |-> "ZeroPlus"]
\* ArgDef::named(name).switch() and ArgDef::named_and_short(name, short).switch()
DefSwitch(n, s) == [kind |-> "Switch", name |-> n, short |-> s, trail |-> "None"]
\* ArgDef::named(name).option() and ArgDef::named_and_short(name, short).option()
DefOption(n, s) == [kind |-> "Option", name |-> n, short |-> s, trail |-> "None"]

\* The definition lists the parses are created from.
DefLists ==
    { \* switch "a"/'a', option "c"/'c'
      << DefSwitch(<<"a">>, "a"), DefOption(<<"c">>, "c") >>,
      \* positional "a", a required trail, option "c"/'c'
      << DefPositional(<<"a">>), DefRequiredTrail, DefOption(<<"c">>, "c") >>,
      \* two positionals, an optional trail, switch "a"/'a', switch ""
      << DefPositional(<<"a">>), DefPositional(<<"c">>), DefOptionalTrail,
         DefSwitch(<<"a">>, "a"), DefSwitch(<<>>, NoShort) >>,
      \* aliases that differ from the long names: option "a"/'c', switch "c"/'a'
      << DefOption(<<"a">>, "c"), DefSwitch(<<"c">>, "a") >>,
      \* two switches, "a"/'a' and "c"/'c', and an optional trail
      << DefSwitch(<<"a">>, "a"), DefSwitch(<<"c">>, "c"), DefOptionalTrail >> }

\* tokens without a dash, "-" followed by up to MaxGroup letters, and "--"
\* followed by at most one letter
Tokens ==
    StringsUpTo(1)
    \cup { <<Dash>> \o s : s \in StringsUpTo(MaxGroup) }
    \cup { <<Dash, Dash>> \o s : s \in StringsUpTo(1) }

ArgLists == UNION {[1..n -> Tokens] : n \in 0..MaxArgs}

(***************************************************************************)
(* Parse::new: the definition compiler.                                    *)
(***************************************************************************)
\* HashMap::new()
EmptyMap == [k \in {} |-> <<>>]

\* HashMap::insert
Insert(m, k, v) == [x \in DOMAIN m \cup {k} |-> IF x = k THEN v ELSE m[x]]

NoError == [type |-> "None", name |-> <<>>, other |-> <<>>]
DefError(t, n, o) == [type |-> t, name |-> n, other |-> o]

\* add_name looking the long name up among the positional names too
add_name_single_namespace(st, def) ==
    IF def.name \in st.used_names \cup st.used_positional_names
    THEN [st EXCEPT !.error = DefError("OptionDefinedTwice", def.name, <<>>)]
    ELSE LET named == [st EXCEPT !.used_names = @ \cup {def.name}]
         IN  IF def.short = NoShort
             THEN named
             ELSE IF def.short \in DOMAIN named.aliases
                  THEN [named EXCEPT !.error =
                           DefError("SameShortName", def.name, named.aliases[def.short])]
                  ELSE [named EXCEPT !.aliases = Insert(@, def.short, def.name)]

\* add_name reporting the two long names of SameShortName the other way round
add_name_existing_first(st, def) ==
    IF def.name \in st.used_names
    THEN [st EXCEPT !.error = DefError("OptionDefinedTwice", def.name, <<>>)]
    ELSE LET named == [st EXCEPT !.used_names = @ \cup {def.name}]
         IN  IF def.short = NoShort
             THEN named
             ELSE IF def.short \in DOMAIN named.aliases
                  THEN [named EXCEPT !.error =
                           DefError("SameShortName", named.aliases[def.short], def.name)]
                  ELSE [named EXCEPT !.aliases = Insert(@, def.short, def.name)]

\* Parse::add_name on the compiler's state st
add_name(st, def) ==
    IF def.name \in st.used_names
    THEN [st EXCEPT !.error = DefError("OptionDefinedTwice", def.name, <<>>)]
    ELSE LET named == [st EXCEPT !.used_names = @ \cup {def.name}]
         IN  IF def.short = NoShort
             THEN named
             ELSE IF def.short \in DOMAIN named.aliases
                  THEN [named EXCEPT !.error =
                           DefError("SameShortName", def.name, named.aliases[def.short])]
                  ELSE [named EXCEPT !.aliases = Insert(@, def.short, def.name)]

\* the loop body pushing a positional name at the front of the slot list
new_step_positional_in_front(st, def) ==
    CASE def.kind = "Positional" ->
            IF def.name \in st.used_positional_names
            THEN [st EXCEPT !.error = DefError("PositionalDefinedTwice", def.name, <<>>)]
            ELSE [st EXCEPT !.positional = <<def.name>> \o @,
                            !.used_positional_names = @ \cup {def.name}]
      [] def.kind = "Trail" ->
            IF st.trail # "None"
            THEN [st EXCEPT !.error = DefError("TwoTrailsDefined", <<>>, <<>>)]
            ELSE [st EXCEPT !.trail = def.trail]
      [] def.kind \in {"Switch", "Option"} ->
            LET added == add_name(st, def)
            IN  IF added.error # NoError
                THEN added
                ELSE [added EXCEPT !.options = Insert(@, def.name, def.kind)]

\* the loop body recording a positional name without looking it up first
new_step_positional_unchecked(st, def) ==
    CASE def.kind = "Positional" ->
            [st EXCEPT !.positional = Append(@, def.name),
                       !.used_positional_names = @ \cup {def.name}]
      [] def.kind = "Trail" ->
            IF st.trail # "None"
            THEN [st EXCEPT !.error = DefError("TwoTrailsDefined", <<>>, <<>>)]
            ELSE [st EXCEPT !.trail = def.trail]
      [] def.kind \in {"Switch", "Option"} ->
            LET added == add_name(st, def)
            IN  IF added.error # NoError
                THEN added
                ELSE [added EXCEPT !.options = Insert(@, def.name, def.kind)]

\* the loop body rejecting a second trail only when it has the arity of the
\* first
new_step_same_arity_trail(st, def) ==
    CASE def.kind = "Positional" ->
            IF def.name \in st.used_positional_names
            THEN [st EXCEPT !.error = DefError("PositionalDefinedTwice", def.name, <<>>)]
            ELSE [st EXCEPT !.positional = Append(@, def.name),
                            !.used_positional_names = @ \cup {def.name}]
      [] def.kind = "Trail" ->
            IF st.trail = def.trail
            THEN [st EXCEPT !.error = DefError("TwoTrailsDefined", <<>>, <<>>)]
            ELSE [st EXCEPT !.trail = def.trail]
      [] def.kind \in {"Switch", "Option"} ->
            LET added == add_name(st, def)
            IN  IF added.error # NoError
                THEN added
                ELSE [added EXCEPT !.options = Insert(@, def.name, def.kind)]

\* the loop body registering the names of an option without its entry in
\* the option table
new_step_without_option_entry(st, def) ==
    CASE def.kind = "Positional" ->
            IF def.name \in st.used_positional_names
            THEN [st EXCEPT !.error = DefError("PositionalDefinedTwice", def.name, <<>>)]
            ELSE [st EXCEPT !.positional = Append(@, def.name),
                            !.used_positional_names = @ \cup {def.name}]
      [] def.kind = "Trail" ->
            IF st.trail # "None"
            THEN [st EXCEPT !.error = DefError("TwoTrailsDefined", <<>>, <<>>)]
            ELSE [st EXCEPT !.trail = def.trail]
      [] def.kind = "Switch" ->
            LET added == add_name(st, def)
            IN  IF added.error # NoError
                THEN added
                ELSE [added EXCEPT !.options = Insert(@, def.name, def.kind)]
      [] def.kind = "Option" -> add_name(st, def)

\* one iteration of the loop over the definitions in Parse::new
new_step(st, def) ==
    CASE def.kind = "Positional" ->
            IF def.name \in st.used_positional_names
            THEN [st EXCEPT !.error = DefError("PositionalDefinedTwice", def.name, <<>>)]
            ELSE [st EXCEPT !.positional = Append(@, def.name),
                            !.used_positional_names = @ \cup {def.name}]
      [] def.kind = "Trail" ->
            IF st.trail # "None"
            THEN [st EXCEPT !.error = DefError("TwoTrailsDefined", <<>>, <<>>)]
            ELSE [st EXCEPT !.trail = def.trail]
      [] def.kind \in {"Switch", "Option"} ->
            LET added == add_name(st, def)
            IN  IF added.error # NoError
                THEN added
                ELSE [added EXCEPT !.options = Insert(@, def.name, def.kind)]

new_start ==
    [error |-> NoError, positional |-> <<>>, trail |-> "None",
     options |-> EmptyMap, aliases |-> EmptyMap,
     used_names |-> {}, used_positional_names |-> {}]

\* the loop going on after an offending definition and keeping the error of
\* the last one
RECURSIVE new_loop_keeping_last_error(_, _, _)
new_loop_keeping_last_error(defs, i, st) ==
    IF i > Len(defs)
    THEN st
    ELSE LET stepped == new_step([st EXCEPT !.error = NoError], defs[i])
         IN  new_loop_keeping_last_error(defs, i + 1,
                 IF stepped.error # NoError
                 THEN stepped
                 ELSE [stepped EXCEPT !.error = st.error])

RECURSIVE new_loop(_, _, _)
new_loop(defs, i, st) ==
    IF i > Len(defs) \/ st.error # NoError
    THEN st
    ELSE new_loop(defs, i + 1, new_step(st, defs[i]))

\* Parse::new(expected, args): the compiled definitions, or the error
new(defs) == new_loop(defs, 1, new_start)

(***************************************************************************)
(* The results of Parse::next.                                             *)
(***************************************************************************)
NoTok == -1

\* None
NoneRes == [type |-> "None", kind |-> "", name |-> <<>>, value |-> <<>>, ch |-> "", tok |-> NoTok]
\* Some(Ok(arg)); tok is the index of the token the argument was read from
OkRes(kind, name, value, tok) ==
    [type |-> "Ok", kind |-> kind, name |-> name, value |-> value, ch |-> "", tok |-> tok]
\* Some(Err(error))
ErrRes(kind, name, value, ch, tok) ==
    [type |-> "Err", kind |-> kind, name |-> name, value |-> value, ch |-> ch, tok |-> tok]
\* the call did not return: an index out of range or a failed expect/unwrap
PanicRes(tok) ==
    [type |-> "Panic", kind |-> "", name |-> <<>>, value |-> <<>>, ch |-> "", tok |-> tok]

\* read_option with the finished flag left unset when the parameter starts
\* with a dash
read_option_unfinished(name, opt_type, idx, tok) ==
    IF opt_type = "Switch"
    THEN [res |-> OkRes("Switch", name, <<>>, tok), index |-> idx, finished |-> FALSE]
    ELSE IF idx < Len(args)
         THEN LET string == args[idx + 1]
              IN  IF StartsWith(string, <<Dash>>)
                  THEN [res |-> ErrRes("MissingParameter", name, <<>>, "", tok),
                        index |-> idx + 1, finished |-> FALSE]
                  ELSE [res |-> OkRes("Option", name, string, tok),
                        index |-> idx + 1, finished |-> FALSE]
         ELSE [res |-> ErrRes("MissingParameter", name, <<>>, "", tok),
               index |-> idx, finished |-> TRUE]

\* read_option without the check that the parameter does not start with a dash
read_option_any_parameter(name, opt_type, idx, tok) ==
    IF opt_type = "Switch"
    THEN [res |-> OkRes("Switch", name, <<>>, tok), index |-> idx, finished |-> FALSE]
    ELSE IF idx < Len(args)
         THEN [res |-> OkRes("Option", name, args[idx + 1], tok),
               index |-> idx + 1, finished |-> FALSE]
         ELSE [res |-> ErrRes("MissingParameter", name, <<>>, "", tok),
               index |-> idx, finished |-> TRUE]

\* read_option reporting the rejected parameter instead of the option's name
read_option_reports_parameter(name, opt_type, idx, tok) ==
    IF opt_type = "Switch"
    THEN [res |-> OkRes("Switch", name, <<>>, tok), index |-> idx, finished |-> FALSE]
    ELSE IF idx < Len(args)
         THEN LET string == args[idx + 1]
              IN  IF StartsWith(string, <<Dash>>)
                  THEN [res |-> ErrRes("MissingParameter", string, <<>>, "", tok),
                        index |-> idx + 1, finished |-> TRUE]
                  ELSE [res |-> OkRes("Option", name, string, tok),
                        index |-> idx + 1, finished |-> FALSE]
         ELSE [res |-> ErrRes("MissingParameter", name, <<>>, "", tok),
               index |-> idx, finished |-> TRUE]

\* read_option finishing the parse at the switch with the empty name
read_option_stops_at_empty_name(name, opt_type, idx, tok) ==
    IF opt_type = "Switch"
    THEN [res |-> OkRes("Switch", name, <<>>, tok), index |-> idx,
          finished |-> (name = <<>>)]
    ELSE IF idx < Len(args)
         THEN LET string == args[idx + 1]
              IN  IF StartsWith(string, <<Dash>>)
                  THEN [res |-> ErrRes("MissingParameter", name, <<>>, "", tok),
                        index |-> idx + 1, finished |-> TRUE]
                  ELSE [res |-> OkRes("Option", name, string, tok),
                        index |-> idx + 1, finished |-> FALSE]
         ELSE [res |-> ErrRes("MissingParameter", name, <<>>, "", tok),
               index |-> idx, finished |-> TRUE]

\* read_option rejecting a flag whose event was returned before
read_option_given_once(name, opt_type, idx, tok) ==
    IF \E i \in 1..Len(results) : results[i].type = "Ok" /\ results[i].name = name
                                     /\ results[i].kind \in {"Switch", "Option"}
    THEN [res |-> ErrRes("OptionGivenTwice", name, <<>>, "", tok),
          index |-> idx, finished |-> TRUE]
    ELSE IF opt_type = "Switch"
    THEN [res |-> OkRes("Switch", name, <<>>, tok), index |-> idx, finished |-> FALSE]
    ELSE IF idx < Len(args) /\ ~StartsWith(args[idx + 1], <<Dash>>)
         THEN [res |-> OkRes("Option", name, args[idx + 1], tok),
               index |-> idx + 1, finished |-> FALSE]
         ELSE [res |-> ErrRes("MissingParameter", name, <<>>, "", tok),
               index |-> idx, finished |-> TRUE]

\* read_option stepping over the parameter without looking for the end of
\* the tokens
read_option_advancing_past_end(name, opt_type, idx, tok) ==
    IF opt_type = "Switch"
    THEN [res |-> OkRes("Switch", name, <<>>, tok), index |-> idx, finished |-> FALSE]
    ELSE IF idx < Len(args) /\ ~StartsWith(args[idx + 1], <<Dash>>)
         THEN [res |-> OkRes("Option", name, args[idx + 1], tok),
               index |-> idx + 1, finished |-> FALSE]
         ELSE [res |-> ErrRes("MissingParameter", name, <<>>, "", tok),
               index |-> idx + 1, finished |-> TRUE]

\* read_option leaving a following token that starts with a dash unread
read_option_leaving_flag_like_token(name, opt_type, idx, tok) ==
    IF opt_type = "Switch"
    THEN [res |-> OkRes("Switch", name, <<>>, tok), index |-> idx, finished |-> FALSE]
    ELSE IF idx < Len(args) /\ ~StartsWith(args[idx + 1], <<Dash>>)
         THEN [res |-> OkRes("Option", name, args[idx + 1], tok),
               index |-> idx + 1, finished |-> FALSE]
         ELSE [res |-> ErrRes("MissingParameter", name, <<>>, "", tok),
               index |-> idx, finished |-> TRUE]

\* Parse::read_option, called with self.index = idx while resolving token tok:
\* the result, and the index and finished flag it leaves
read_option(name, opt_type, idx, tok) ==
    IF opt_type = "Switch"
    THEN [res |-> OkRes("Switch", name, <<>>, tok), index |-> idx, finished |-> FALSE]
    ELSE IF Len(args) = 0
         THEN [res |-> ErrRes("MissingParameter", name, <<>>, "", tok),
               index |-> idx, finished |-> TRUE]
         ELSE IF idx < Len(args)
              THEN LET string == args[idx + 1]
                   IN  IF StartsWith(string, <<Dash>>)
                       THEN [res |-> ErrRes("MissingParameter", name, <<>>, "", tok),
                             index |-> idx + 1, finished |-> TRUE]
                       ELSE [res |-> OkRes("Option", name, string, tok),
                             index |-> idx + 1, finished |-> FALSE]
              ELSE [res |-> ErrRes("MissingParameter", name, <<>>, "", tok),
                    index |-> idx, finished |-> TRUE]

\* string.chars().skip(1).map(|ch| (self.index - 1, ch)).collect()
shorts_of(string, tok) == [i \in 1..(Len(string) - 1) |-> <<tok, string[i + 1]>>]

\* the grouped characters stored without the reversal
grouped_unreversed(string, tok) == shorts_of(string, tok)

\* the value stored in remaining_grouped_shorts for a grouped short token
grouped(string, tok) == Reverse(shorts_of(string, tok))

\* the positional branch with the slot index left where it was
positional_step_same_slot(string, tok) ==
    IF next_position < Len(positional)
    THEN [res |-> OkRes("Positional", positional[next_position + 1], string, tok),
          next_position |-> next_position,
          trail_args_found |-> trail_args_found, finished |-> FALSE]
    ELSE IF trail # "None"
         THEN [res |-> OkRes("TrailPart", <<>>, string, tok),
               next_position |-> next_position,
               trail_args_found |-> trail_args_found + 1, finished |-> FALSE]
         ELSE [res |-> ErrRes("UnexpectedPositional", <<>>, string, "", tok),
               next_position |-> next_position,
               trail_args_found |-> trail_args_found, finished |-> TRUE]

\* the positional branch accepting trail values for a one-or-more trail only
positional_step_required_trail_only(string, tok) ==
    IF next_position < Len(positional)
    THEN [res |-> OkRes("Positional", positional[next_position + 1], string, tok),
          next_position |-> next_position + 1,
          trail_args_found |-> trail_args_found, finished |-> FALSE]
    ELSE IF trail = "OnePlus"
         THEN [res |-> OkRes("TrailPart", <<>>, string, tok),
               next_position |-> next_position,
               trail_args_found |-> trail_args_found + 1, finished |-> FALSE]
         ELSE [res |-> ErrRes("UnexpectedPositional", <<>>, string, "", tok),
               next_position |-> next_position,
               trail_args_found |-> trail_args_found, finished |-> TRUE]

\* the positional branch giving the first value to the trail when one is defined
positional_step_trail_first(string, tok) ==
    IF trail # "None" /\ trail_args_found = 0
    THEN [res |-> OkRes("TrailPart", <<>>, string, tok),
          next_position |-> next_position,
          trail_args_found |-> trail_args_found + 1, finished |-> FALSE]
    ELSE IF next_position < Len(positional)
    THEN [res |-> OkRes("Positional", positional[next_position + 1], string, tok),
          next_position |-> next_position + 1,
          trail_args_found |-> trail_args_found, finished |-> FALSE]
    ELSE IF trail # "None"
         THEN [res |-> OkRes("TrailPart", <<>>, string, tok),
               next_position |-> next_position,
               trail_args_found |-> trail_args_found + 1, finished |-> FALSE]
         ELSE [res |-> ErrRes("UnexpectedPositional", <<>>, string, "", tok),
               next_position |-> next_position,
               trail_args_found |-> trail_args_found, finished |-> TRUE]

\* the positional branch of next() (lines 419-436) for the argument string
\* read from token tok: the result, and the fields it leaves
positional_step(string, tok) ==
    IF next_position < Len(positional)
    THEN [res |-> OkRes("Positional", positional[next_position + 1], string, tok),
          next_position |-> next_position + 1,
          trail_args_found |-> trail_args_found, finished |-> FALSE]
    ELSE IF trail # "None"
         THEN [res |-> OkRes("TrailPart", <<>>, string, tok),
               next_position |-> next_position,
               trail_args_found |-> trail_args_found + 1, finished |-> FALSE]
         ELSE [res |-> ErrRes("UnexpectedPositional", <<>>, string, "", tok),
               next_position |-> next_position,
               trail_args_found |-> trail_args_found, finished |-> TRUE]

\* the end of the arguments with the trail checked before the positionals
end_result_trail_first ==
    IF trail = "OnePlus" /\ trail_args_found = 0
    THEN ErrRes("MissingTrail", <<>>, <<>>, "", NoTok)
    ELSE IF next_position < Len(positional)
         THEN ErrRes("MissingPositional", positional[next_position + 1], <<>>, "", NoTok)
         ELSE NoneRes

\* the end of the arguments with every kind of trail required
end_result_any_trail_required ==
    IF next_position < Len(positional)
    THEN ErrRes("MissingPositional", positional[next_position + 1], <<>>, "", NoTok)
    ELSE IF trail # "None" /\ trail_args_found = 0
         THEN ErrRes("MissingTrail", <<>>, <<>>, "", NoTok)
         ELSE NoneRes

\* what next() returns when no argument is left (lines 371-383)
end_result ==
    IF next_position < Len(positional)
    THEN ErrRes("MissingPositional", positional[next_position + 1], <<>>, "", NoTok)
    ELSE IF trail = "OnePlus" /\ trail_args_found = 0
         THEN ErrRes("MissingTrail", <<>>, <<>>, "", NoTok)
         ELSE NoneRes

\* the error for an undefined long flag carrying the name without the dashes
unexpected_long_without_dashes(string, tok) ==
    ErrRes("UnexpectedLongArgument", <<>>, SliceFrom(string, 2), "", tok)

\* Err(UnexpectedLongArgument(string.clone())) (line 393)
unexpected_long(string, tok) ==
    ErrRes("UnexpectedLongArgument", <<>>, string, "", tok)

\* the keys of a HashMap in an iteration order: every order is possible
KeyOrders(m) ==
    {o \in [1..Cardinality(DOMAIN m) -> DOMAIN m] :
        \A i \in DOMAIN o : \A j \in DOMAIN o : o[i] = o[j] => i = j}

\* find with a prefix test in place of the equality
find_key_prefix(o, name) ==
    o[CHOOSE i \in DOMAIN o :
          /\ StartsWith(name, o[i])
          /\ \A j \in 1..(i - 1) : ~StartsWith(name, o[j])]

\* self.options.keys().find(|n| *n == name) over the keys in the order o: the
\* first key that is equal to name
find_key(o, name) ==
    o[CHOOSE i \in DOMAIN o :
          /\ o[i] = name
          /\ \A j \in 1..(i - 1) : o[j] # name]

\* no subcommand handler has been called
NoCall == [called |-> FALSE, name |-> <<>>, program |-> <<>>, args |-> <<>>,
           handler_result |-> "", result |-> ""]

\* no call of remainder() since the last call of next()
NoView == [called |-> FALSE, slice |-> <<>>]

\* the slice taken one argument too far
remainder_skipping_one == SubSeq(args, index + 2, Len(args))

\* Parse::remainder: &self.args[self.index..]
remainder == SubSeq(args, index + 1, Len(args))

(***************************************************************************)
(* The state after Parse::new(expected, args) returned Ok.                 *)
(***************************************************************************)
Init ==
    /\ expected \in {d \in DefLists : new(d).error = NoError}
    /\ args \in ArgLists
    /\ index = 0
    /\ finished = FALSE
    /\ positional = new(expected).positional
    /\ next_position = 0
    /\ trail = new(expected).trail
    /\ trail_args_found = 0
    /\ options = new(expected).options
    /\ aliases = new(expected).aliases
    /\ remaining_grouped_shorts = <<>>
    /\ results = <<>>
    /\ panicked = FALSE
    /\ idle = 0
    /\ created = TRUE
    /\ error = NoError
    /\ remainder_view = NoView
    /\ program = <<>>
    /\ subcommands = {}
    /\ delegation = NoCall

(***************************************************************************)
(* Parse::next, one action per path through the function.  Every action    *)
(* is one whole call and appends what the call returned to results.        *)
(***************************************************************************)
Return(res) == results' = Append(results, res)

Panic(tok) == /\ Return(PanicRes(tok))
              /\ panicked' = TRUE

\* a call on a finished parse that discards the pending characters
NextFinished_clearing_group ==
    /\ ~panicked
    /\ finished
    /\ idle < MaxIdleCalls
    /\ idle' = idle + 1
    /\ Return(NoneRes)
    /\ remainder_view' = NoView
    /\ remaining_grouped_shorts' = <<>>
    /\ UNCHANGED <<expected, created, error, program, subcommands, delegation,
                   args, index, finished, positional, next_position,
                   trail, trail_args_found, options, aliases, panicked>>

\* the parse is finished: None (lines 343-345)
NextFinished ==
    /\ ~panicked
    /\ finished
    /\ idle < MaxIdleCalls
    /\ idle' = idle + 1
    /\ Return(NoneRes)
    /\ remainder_view' = NoView
    /\ UNCHANGED <<expected, created, error, program, subcommands, delegation,
                   args, index, finished, positional, next_position,
                   trail, trail_args_found, options, aliases,
                   remaining_grouped_shorts, panicked>>

\* the continuation resolving one character and dropping the others
NextGrouped_draining ==
    /\ ~panicked
    /\ ~finished
    /\ remaining_grouped_shorts # <<>>
    /\ LET n     == Len(remaining_grouped_shorts)
           tok   == remaining_grouped_shorts[n][1]
           short == remaining_grouped_shorts[n][2]
       IN  /\ remaining_grouped_shorts' = <<>>
           /\ IF short \notin DOMAIN aliases
              THEN IF tok < Len(args)
                   THEN /\ finished' = TRUE
                        /\ Return(ErrRes("UnexpectedShortArgument", <<>>, args[tok + 1], short, tok))
                        /\ UNCHANGED panicked
                   ELSE /\ finished' = TRUE
                        /\ Panic(tok)
              ELSE LET name == aliases[short]
                   IN  IF name \notin DOMAIN options
                       THEN /\ Panic(tok)
                            /\ UNCHANGED finished
                       ELSE IF options[name] = "Option"
                            THEN IF tok < Len(args)
                                 THEN /\ finished' = TRUE
                                      /\ Return(ErrRes("GroupedNonSwitch", <<>>, args[tok + 1], short, tok))
                                      /\ UNCHANGED panicked
                                 ELSE /\ finished' = TRUE
                                      /\ Panic(tok)
                            ELSE /\ Return(OkRes("Switch", name, <<>>, tok))
                                 /\ UNCHANGED <<finished, panicked>>
    /\ remainder_view' = NoView
    /\ UNCHANGED <<expected, created, error, program, subcommands, delegation,
                   args, index, positional, next_position, trail,
                   trail_args_found, options, aliases, idle>>

\* a character is left from a grouped short token (lines 349-362)
NextGrouped ==
    /\ ~panicked
    /\ ~finished
    /\ remaining_grouped_shorts # <<>>
    /\ LET n     == Len(remaining_grouped_shorts)
           tok   == remaining_grouped_shorts[n][1]
           short == remaining_grouped_shorts[n][2]
       IN  /\ remaining_grouped_shorts' = SubSeq(remaining_grouped_shorts, 1, n - 1)
           /\ IF short \notin DOMAIN aliases
              THEN IF tok < Len(args)
                   THEN /\ finished' = TRUE
                        /\ Return(ErrRes("UnexpectedShortArgument", <<>>, args[tok + 1], short, tok))
                        /\ UNCHANGED panicked
                   ELSE /\ finished' = TRUE
                        /\ Panic(tok)
              ELSE LET name == aliases[short]
                   IN  IF name \notin DOMAIN options
                       THEN /\ Panic(tok)
                            /\ UNCHANGED finished
                       ELSE IF options[name] = "Option"
                            THEN IF tok < Len(args)
                                 THEN /\ finished' = TRUE
                                      /\ Return(ErrRes("GroupedNonSwitch", <<>>, args[tok + 1], short, tok))
                                      /\ UNCHANGED panicked
                                 ELSE /\ finished' = TRUE
                                      /\ Panic(tok)
                            ELSE /\ Return(OkRes("Switch", name, <<>>, tok))
                                 /\ UNCHANGED <<finished, panicked>>
    /\ remainder_view' = NoView
    /\ UNCHANGED <<expected, created, error, program, subcommands, delegation,
                   args, index, positional, next_position, trail,
                   trail_args_found, options, aliases, idle>>

\* no more arguments (lines 364-384)
NextEnd ==
    /\ ~panicked
    /\ ~finished
    /\ remaining_grouped_shorts = <<>>
    /\ ~(index < Len(args))
    /\ finished' = TRUE
    /\ Return(end_result)
    /\ remainder_view' = NoView
    /\ UNCHANGED <<expected, created, error, program, subcommands, delegation,
                   args, index, positional, next_position, trail,
                   trail_args_found, options, aliases, remaining_grouped_shorts,
                   panicked, idle>>

\* the next argument starts with "--" (lines 388-397)
NextLong ==
    /\ ~panicked
    /\ ~finished
    /\ remaining_grouped_shorts = <<>>
    /\ index < Len(args)
    /\ LET string == args[index + 1]
           tok    == index
       IN  /\ StartsWith(string, <<Dash, Dash>>)
           /\ IF SliceFrom(string, 2) \notin DOMAIN options
              THEN /\ index' = index + 1
                   /\ finished' = TRUE
                   /\ Return(unexpected_long(string, tok))
              ELSE \E o \in KeyOrders(options) :
                     LET opt_type == options[SliceFrom(string, 2)]
                         key == find_key(o, SliceFrom(string, 2))
                         read == read_option(key, opt_type, index + 1, tok)
                     IN  /\ index' = read.index
                         /\ finished' = read.finished
                         /\ Return(read.res)
    /\ remainder_view' = NoView
    /\ UNCHANGED <<expected, created, error, program, subcommands, delegation,
                   args, positional, next_position, trail,
                   trail_args_found, options, aliases, remaining_grouped_shorts,
                   panicked, idle>>

\* the next argument starts with one "-" and more than one character follows:
\* the characters are stored and the call falls through to the final None
\* (lines 400-405 and 438)
NextShortGroup ==
    /\ ~panicked
    /\ ~finished
    /\ remaining_grouped_shorts = <<>>
    /\ index < Len(args)
    /\ LET string == args[index + 1]
           tok    == index
       IN  /\ ~StartsWith(string, <<Dash, Dash>>)
           /\ StartsWith(string, <<Dash>>)
           /\ Len(shorts_of(string, tok)) > 1
           /\ index' = index + 1
           /\ remaining_grouped_shorts' = grouped(string, tok)
           /\ Return([NoneRes EXCEPT !.tok = tok])
    /\ remainder_view' = NoView
    /\ UNCHANGED <<expected, created, error, program, subcommands, delegation,
                   args, finished, positional, next_position, trail,
                   trail_args_found, options, aliases, panicked, idle>>

\* the next argument starts with one "-" and at most one character follows
\* (lines 400-403 and 406-416)
NextShortSingle ==
    /\ ~panicked
    /\ ~finished
    /\ remaining_grouped_shorts = <<>>
    /\ index < Len(args)
    /\ LET string == args[index + 1]
           tok    == index
           shorts == shorts_of(string, tok)
       IN  /\ ~StartsWith(string, <<Dash, Dash>>)
           /\ StartsWith(string, <<Dash>>)
           /\ ~(Len(shorts) > 1)
           /\ IF Len(shorts) = 0
              THEN \* shorts[0] is out of range
                   /\ index' = index + 1
                   /\ Panic(tok)
                   /\ UNCHANGED finished
              ELSE LET short == shorts[1][2]
                   IN  IF short \notin DOMAIN aliases
                       THEN /\ index' = index + 1
                            /\ finished' = TRUE
                            /\ Return(ErrRes("UnexpectedShortArgument", <<>>, string, short, tok))
                            /\ UNCHANGED panicked
                       ELSE LET name == aliases[short]
                            IN  IF name \notin DOMAIN options
                                THEN /\ index' = index + 1
                                     /\ Panic(tok)
                                     /\ UNCHANGED finished
                                ELSE LET read == read_option(name, options[name], index + 1, tok)
                                     IN  /\ index' = read.index
                                         /\ finished' = read.finished
                                         /\ Return(read.res)
                                         /\ UNCHANGED panicked
    /\ remainder_view' = NoView
    /\ UNCHANGED <<expected, created, error, program, subcommands, delegation,
                   args, positional, next_position, trail,
                   trail_args_found, options, aliases, remaining_grouped_shorts,
                   idle>>

\* the next argument does not start with "-" (lines 419-436)
NextPositional ==
    /\ ~panicked
    /\ ~finished
    /\ remaining_grouped_shorts = <<>>
    /\ index < Len(args)
    /\ LET string == args[index + 1]
           tok    == index
           step   == positional_step(string, tok)
       IN  /\ ~StartsWith(string, <<Dash, Dash>>)
           /\ ~StartsWith(string, <<Dash>>)
           /\ index' = index + 1
           /\ next_position' = step.next_position
           /\ trail_args_found' = step.trail_args_found
           /\ finished' = step.finished
           /\ Return(step.res)
    /\ remainder_view' = NoView
    /\ UNCHANGED <<expected, created, error, program, subcommands, delegation,
                   args, positional, trail, options, aliases,
                   remaining_grouped_shorts, panicked, idle>>

\* remainder() ending the parse
Remainder_finishing ==
    /\ ~panicked
    /\ index <= Len(args)
    /\ remainder_view' = [called |-> TRUE, slice |-> remainder]
    /\ finished' = TRUE
    /\ UNCHANGED <<expected, created, error, program, subcommands, delegation,
                   args, index, positional,
                   next_position, trail, trail_args_found, options, aliases,
                   remaining_grouped_shorts, results, panicked, idle>>

\* Parse::remainder (lines 330-332): the slice is returned, the parse is only
\* read; a start past the end of args would panic
Remainder ==
    /\ ~panicked
    /\ IF index <= Len(args)
       THEN /\ remainder_view' = [called |-> TRUE, slice |-> remainder]
            /\ UNCHANGED <<results, panicked>>
       ELSE /\ Panic(NoTok)
            /\ UNCHANGED remainder_view
    /\ UNCHANGED <<expected, created, error, program, subcommands, delegation,
                   args, index, finished, positional,
                   next_position, trail, trail_args_found, options, aliases,
                   remaining_grouped_shorts, idle>>

Next ==
    \/ Remainder
    \/ NextFinished
    \/ NextGrouped
    \/ NextEnd
    \/ NextLong
    \/ NextShortGroup
    \/ NextShortSingle
    \/ NextPositional

Spec == Init /\ [][Next]_vars

(***************************************************************************)
(* Notions the properties are stated with.                                 *)
(***************************************************************************)
IsNone(r) == r.type = "None"
IsEvent(r) == r.type = "Ok"
IsError(r) == r.type = "Err"

Last(s) == s[Len(s)]

\* the results that came from the token with index t, in the order returned
ResultsOf(t) == SelectSeq(results, LAMBDA r : r.tok = t)
\* those of them that are events or errors
SomeResultsOf(t) == SelectSeq(results, LAMBDA r : r.tok = t /\ ~IsNone(r))
\* the events returned so far
Events == SelectSeq(results, IsEvent)
EventsOf(t) == SelectSeq(results, LAMBDA r : r.tok = t /\ IsEvent(r))

TokenIndices == 0..(Len(args) - 1)

IsLongToken(s) == StartsWith(s, <<Dash, Dash>>)
IsShortToken(s) == StartsWith(s, <<Dash>>) /\ ~IsLongToken(s)
IsGroupToken(s) == IsShortToken(s) /\ Len(s) > 2
IsPlainToken(s) == ~StartsWith(s, <<Dash>>)
\* the characters after the dash of a short token
CharsOf(s) == SliceFrom(s, 1)

\* the character resolves to a definition of this kind
ResolvesTo(ch, kind) ==
    /\ ch \in DOMAIN aliases
    /\ aliases[ch] \in DOMAIN options
    /\ options[aliases[ch]] = kind

(***************************************************************************)
(* C1: once next() has returned None, every later call returns None.       *)
(***************************************************************************)
C1_NoneIsFinal ==
    \A i \in 1..Len(results) : \A j \in 1..Len(results) :
        (i < j /\ IsNone(results[i])) => IsNone(results[j])

(***************************************************************************)
(* C2: once next() has returned an error the parse is finished, and every  *)
(* later call returns None: no second error and no event.                  *)
(***************************************************************************)
C2_ErrorFinishes ==
    /\ \A i \in 1..Len(results) : \A j \in 1..Len(results) :
           (i < j /\ IsError(results[i])) => IsNone(results[j])
    /\ (\E i \in 1..Len(results) : IsError(results[i])) => finished

\* an error was returned and next() was called again
C2_Witness ==
    /\ Len(results) >= 2
    /\ IsError(results[Len(results) - 1])
    /\ IsNone(Last(results))
    /\ idle > 0

(***************************************************************************)
(* C3: every call of next() returns an event, an error or None; no call    *)
(* panics.                                                                 *)
(***************************************************************************)
C3_NoPanic ==
    /\ ~panicked
    /\ \A i \in 1..Len(results) : results[i].type \in {"Ok", "Err", "None"}

(***************************************************************************)
(* C4: when next() returns None for the first time (no error having been   *)
(* returned before), all tokens have been consumed, no grouped character   *)
(* is pending, every positional slot is filled and a one-or-more trail     *)
(* has at least one value.                                                 *)
(***************************************************************************)
C4_FirstNoneComplete ==
    ( /\ Len(results) > 0
      /\ IsNone(Last(results))
      /\ \A k \in 1..(Len(results) - 1) : IsEvent(results[k]) )
    => /\ index = Len(args)
       /\ remaining_grouped_shorts = <<>>
       /\ next_position = Len(positional)
       /\ (trail = "OnePlus" => trail_args_found > 0)

(***************************************************************************)
(* Grouped short tokens.                                                   *)
(***************************************************************************)
\* the Switch events of the first n characters of the group token t
GroupSwitches(t, n) ==
    [i \in 1..n |-> OkRes("Switch", aliases[CharsOf(args[t + 1])[i]], <<>>, t)]

\* token t is a group of Switch characters ending with an Option character,
\* and the token after it does not start with a dash
LastIsOption(t) ==
    LET cs == CharsOf(args[t + 1])
    IN  /\ IsGroupToken(args[t + 1])
        /\ \A i \in 1..(Len(cs) - 1) : ResolvesTo(cs[i], "Switch")
        /\ ResolvesTo(cs[Len(cs)], "Option")
        /\ t + 1 < Len(args)
        /\ IsPlainToken(args[t + 2])

\* in the group token t the j-th character is an Option character that is
\* not the last one, and the characters before it are Switch characters
OptionNotLast(t, j) ==
    LET cs == CharsOf(args[t + 1])
    IN  /\ IsGroupToken(args[t + 1])
        /\ j \in 1..(Len(cs) - 1)
        /\ \A i \in 1..(j - 1) : ResolvesTo(cs[i], "Switch")
        /\ ResolvesTo(cs[j], "Option")

\* token t was read as a flag and the parse has finished
Resolved(t) == finished /\ ResultsOf(t) # <<>>

(***************************************************************************)
(* C5 as claimed: a group of Switch characters ending with an Option       *)
(* character, followed by a token without a dash, yields the Switch events *)
(* in order and then Option(name, followingToken).                         *)
(***************************************************************************)
C5_LastOptionTakesParameter ==
    \A t \in TokenIndices :
        (LastIsOption(t) /\ Resolved(t)) =>
            LET cs == CharsOf(args[t + 1])
            IN  SomeResultsOf(t) =
                    Append(GroupSwitches(t, Len(cs) - 1),
                           OkRes("Option", aliases[cs[Len(cs)]], args[t + 2], t))

(***************************************************************************)
(* C5 as amended: such a token yields the Switch events in order and then  *)
(* the error GroupedNonSwitch(lastChar, groupToken); the following token   *)
(* is not consumed.                                                        *)
(***************************************************************************)
C5_LastOptionRejected ==
    \A t \in TokenIndices :
        (LastIsOption(t) /\ Resolved(t)) =>
            LET cs == CharsOf(args[t + 1])
            IN  /\ SomeResultsOf(t) =
                       Append(GroupSwitches(t, Len(cs) - 1),
                              ErrRes("GroupedNonSwitch", <<>>, args[t + 1], cs[Len(cs)], t))
                /\ index = t + 1

\* such a token was resolved
C5_Witness ==
    \E t \in TokenIndices : LastIsOption(t) /\ Resolved(t)

(***************************************************************************)
(* C6: when an Option character of a group is not the last character and   *)
(* only Switch characters precede it, the results for the token are the    *)
(* Switch events of the preceding characters followed directly by          *)
(* GroupedNonSwitch(thatChar, groupToken).                                 *)
(***************************************************************************)
C6_OptionNotLastRejected ==
    \A t \in TokenIndices : \A j \in 1..MaxGroup :
        (OptionNotLast(t, j) /\ Resolved(t)) =>
            ResultsOf(t) =
                Append(GroupSwitches(t, j - 1),
                       ErrRes("GroupedNonSwitch", <<>>, args[t + 1],
                              CharsOf(args[t + 1])[j], t))

(***************************************************************************)
(* C7: the call that reads a grouped short token resolves its first        *)
(* character; it does not return None.                                     *)
(***************************************************************************)
C7_GroupReadResolvesFirst ==
    \A i \in 1..Len(results) :
        LET t == results[i].tok
        IN  ( /\ t \in TokenIndices
              /\ IsGroupToken(args[t + 1])
              /\ (i = 1 \/ results[i - 1].tok # t) )
            => ~IsNone(results[i])

(***************************************************************************)
(* Flags read from a token of their own.                                   *)
(***************************************************************************)
\* a "--name" token or a "-x" token with one character
IsSingleFlag(s) == IsLongToken(s) \/ (IsShortToken(s) /\ Len(s) = 2)

\* the token resolves to a definition
IsDefinedFlag(s) ==
    \/ IsLongToken(s) /\ SliceFrom(s, 2) \in DOMAIN options
    \/ IsShortToken(s) /\ Len(s) = 2 /\ s[2] \in DOMAIN aliases
                       /\ aliases[s[2]] \in DOMAIN options

\* the long name of the definition a defined flag token resolves to
FlagName(s) == IF IsLongToken(s) THEN SliceFrom(s, 2) ELSE aliases[s[2]]

IsOptionFlag(s) == IsDefinedFlag(s) /\ options[FlagName(s)] = "Option"

(***************************************************************************)
(* C8: the events are returned in the left-to-right order of the tokens;   *)
(* a grouped short token contributes the events of its characters in       *)
(* their order, before any event of a later token; every event is the one  *)
(* of its token, and no token before an event is skipped.                  *)
(***************************************************************************)
C8_OrderPreserved ==
    /\ \A i \in 1..Len(Events) : \A j \in 1..Len(Events) :
           i < j => /\ Events[i].tok <= Events[j].tok
                    /\ Events[i].tok = Events[j].tok => IsGroupToken(args[Events[i].tok + 1])
    /\ \A t \in TokenIndices :
           IsGroupToken(args[t + 1]) =>
               LET es == EventsOf(t)
                   cs == CharsOf(args[t + 1])
               IN  /\ Len(es) <= Len(cs)
                   /\ \A i \in 1..Len(es) :
                          /\ cs[i] \in DOMAIN aliases
                          /\ es[i] = OkRes("Switch", aliases[cs[i]], <<>>, t)
                   /\ (\E i \in 1..Len(Events) : Events[i].tok > t) => Len(es) = Len(cs)
    /\ \A i \in 1..Len(Events) :
           LET e == Events[i]
               s == args[e.tok + 1]
           IN  /\ e.tok \in TokenIndices
               /\ e.kind \in {"Positional", "TrailPart"} => IsPlainToken(s) /\ e.value = s
               /\ (e.kind = "Switch" /\ ~IsGroupToken(s)) =>
                      IsSingleFlag(s) /\ IsDefinedFlag(s) /\ e.name = FlagName(s)
               /\ e.kind = "Option" =>
                      /\ IsSingleFlag(s) /\ IsDefinedFlag(s) /\ e.name = FlagName(s)
                      /\ e.tok + 1 < Len(args)
                      /\ e.value = args[e.tok + 2]
               /\ \A u \in 0..(e.tok - 1) :
                      \/ EventsOf(u) # <<>>
                      \/ /\ u > 0
                         /\ \E k \in 1..Len(Events) :
                                Events[k].tok = u - 1 /\ Events[k].kind = "Option"

\* a group gave two events and a later token gave another one
C8_Witness ==
    \E t \in TokenIndices :
        /\ Len(EventsOf(t)) >= 2
        /\ CharsOf(args[t + 1])[1] # CharsOf(args[t + 1])[2]
        /\ \E i \in 1..Len(Events) : Events[i].tok > t

(***************************************************************************)
(* C9: a long token or a one-character short token that resolves to an     *)
(* Option definition returns Option(longName, nextToken) and consumes both *)
(* tokens if and only if a next token exists and does not start with a     *)
(* dash; otherwise it returns MissingParameter and finishes the parse.     *)
(***************************************************************************)
ReadsOptionFlag ==
    /\ ~finished
    /\ ~panicked
    /\ remaining_grouped_shorts = <<>>
    /\ index < Len(args)
    /\ IsOptionFlag(args[index + 1])
    /\ results' # results

HasParameter == index + 1 < Len(args) /\ IsPlainToken(args[index + 2])

C9_OptionParameter ==
    [][ ReadsOptionFlag =>
          /\ Len(results') = Len(results) + 1
          /\ IF HasParameter
             THEN /\ Last(results') =
                         OkRes("Option", FlagName(args[index + 1]), args[index + 2], index)
                  /\ index' = index + 2
                  /\ ~finished'
             ELSE /\ IsError(Last(results'))
                  /\ Last(results').kind = "MissingParameter"
                  /\ finished' ]_vars

\* an Option event was just returned for a flag and its parameter
C9_Witness ==
    /\ results # <<>>
    /\ IsEvent(Last(results))
    /\ Last(results).kind = "Option"
    /\ IsOptionFlag(args[Last(results).tok + 1])
    /\ index = Last(results).tok + 2

(***************************************************************************)
(* C10 as claimed: the MissingParameter error carries the flag token as    *)
(* it was given in the input.                                              *)
(***************************************************************************)
C10_CarriesToken ==
    \A i \in 1..Len(results) :
        results[i].kind = "MissingParameter" =>
            results[i].name = args[results[i].tok + 1]

(***************************************************************************)
(* C10 as amended: the MissingParameter error carries the long name of     *)
(* the Option definition the flag token resolves to.                       *)
(***************************************************************************)
C10_CarriesLongName ==
    \A i \in 1..Len(results) :
        results[i].kind = "MissingParameter" =>
            /\ IsError(results[i])
            /\ IsOptionFlag(args[results[i].tok + 1])
            /\ results[i].name = FlagName(args[results[i].tok + 1])

\* a "-x" token whose alias differs from the long name gave MissingParameter
C10_Witness ==
    \E i \in 1..Len(results) :
        /\ results[i].kind = "MissingParameter"
        /\ IsShortToken(args[results[i].tok + 1])
        /\ results[i].name # <<args[results[i].tok + 1][2]>>

(***************************************************************************)
(* Tokens without a dash.                                                  *)
(***************************************************************************)
\* token t does not start with a dash and is not the parameter of an Option
\* flag before it
PlainFresh(t) ==
    /\ IsPlainToken(args[t + 1])
    /\ ~(t > 0 /\ IsOptionFlag(args[t]))

\* token t is the Rank(t)-th such token
Rank(t) == Cardinality({u \in 0..t : PlainFresh(u)})

PositionalEvents == SelectSeq(results, LAMBDA r : IsEvent(r) /\ r.kind = "Positional")
TrailEvents == SelectSeq(results, LAMBDA r : IsEvent(r) /\ r.kind = "TrailPart")

(***************************************************************************)
(* C11: the k-th token that does not start with a dash and is not an       *)
(* option parameter yields Positional(k-th slot name, token), for every k  *)
(* up to the number of positional definitions, whatever flags come in      *)
(* between; the next-slot index advances by one per such event.            *)
(***************************************************************************)
C11_PositionalOrder ==
    /\ \A t \in TokenIndices :
           (t < index /\ PlainFresh(t) /\ Rank(t) <= Len(positional)) =>
               ResultsOf(t) = <<OkRes("Positional", positional[Rank(t)], args[t + 1], t)>>
    /\ next_position = Len(PositionalEvents)
    /\ next_position <= Len(positional)

\* a flag token came first and the token after it filled the first slot
C11_Witness ==
    /\ Len(args) >= 2
    /\ StartsWith(args[1], <<Dash>>)
    /\ PositionalEvents # <<>>
    /\ PositionalEvents[1].tok = 1
    /\ next_position = 1

(***************************************************************************)
(* C12: once every slot is filled, a token that does not start with a dash *)
(* and is not an option parameter yields TrailPart(token) and increments   *)
(* the trail count if a trail of either kind is defined; without a trail   *)
(* it yields UnexpectedPositional(token) and finishes the parse.           *)
(***************************************************************************)
C12_TrailOrUnexpected ==
    /\ \A t \in TokenIndices :
           (t < index /\ PlainFresh(t) /\ Rank(t) > Len(positional)) =>
               IF trail # "None"
               THEN ResultsOf(t) = <<OkRes("TrailPart", <<>>, args[t + 1], t)>>
               ELSE /\ ResultsOf(t) =
                           <<ErrRes("UnexpectedPositional", <<>>, args[t + 1], "", t)>>
                    /\ finished
                    /\ index = t + 1
    /\ trail_args_found = Len(TrailEvents)

\* a zero-or-more trail took a value
C12_Witness ==
    /\ trail = "ZeroPlus"
    /\ TrailEvents # <<>>
    /\ trail_args_found = Len(TrailEvents)
    /\ ~finished

(***************************************************************************)
(* C13: when the tokens are exhausted, no grouped character is pending     *)
(* and a positional slot is unfilled, the step returns MissingPositional   *)
(* with the name of the first unfilled slot, also when a required trail    *)
(* is unsatisfied.                                                         *)
(***************************************************************************)
ExhaustedStep ==
    /\ ~finished
    /\ ~panicked
    /\ remaining_grouped_shorts = <<>>
    /\ index = Len(args)
    /\ results' # results

C13_MissingPositional ==
    [][ (ExhaustedStep /\ Len(PositionalEvents) < Len(positional)) =>
           /\ results' = Append(results,
                  ErrRes("MissingPositional", positional[Len(PositionalEvents) + 1],
                         <<>>, "", NoTok))
           /\ finished' ]_vars

\* MissingPositional was returned while a required trail had no value
C13_Witness ==
    /\ results # <<>>
    /\ Last(results).kind = "MissingPositional"
    /\ trail = "OnePlus"
    /\ TrailEvents = <<>>

(***************************************************************************)
(* C14: when the tokens are exhausted with every slot filled, the step     *)
(* returns MissingTrail if and only if a one-or-more trail is defined and  *)
(* no trail value was emitted; otherwise it returns None.                  *)
(***************************************************************************)
C14_MissingTrail ==
    [][ (ExhaustedStep /\ Len(PositionalEvents) = Len(positional)) =>
           /\ finished'
           /\ IF trail = "OnePlus" /\ TrailEvents = <<>>
              THEN results' = Append(results, ErrRes("MissingTrail", <<>>, <<>>, "", NoTok))
              ELSE results' = Append(results, NoneRes) ]_vars

\* MissingTrail was returned after the positional slot was filled
C14_Witness ==
    /\ results # <<>>
    /\ Last(results).kind = "MissingTrail"
    /\ PositionalEvents # <<>>

(***************************************************************************)
(* C15: a token "--name" with an undefined name yields the error for an    *)
(* unknown long argument carrying the whole token; a short character       *)
(* without an alias, alone or in a group, yields the error for an unknown  *)
(* short argument carrying the character and the token it came from.      *)
(* Both finish the parse.                                                  *)
(***************************************************************************)
C15_UnknownFlag ==
    /\ \A t \in TokenIndices :
           ResultsOf(t) # <<>> =>
               LET s  == args[t + 1]
                   cs == CharsOf(s)
               IN  /\ (IsLongToken(s) /\ SliceFrom(s, 2) \notin DOMAIN options) =>
                          ResultsOf(t) =
                              <<ErrRes("UnexpectedLongArgument", <<>>, s, "", t)>>
                   /\ (IsShortToken(s) /\ Len(s) = 2 /\ s[2] \notin DOMAIN aliases) =>
                          ResultsOf(t) =
                              <<ErrRes("UnexpectedShortArgument", <<>>, s, s[2], t)>>
                   /\ \A j \in 1..Len(cs) :
                          ( /\ IsGroupToken(s)
                            /\ finished
                            /\ cs[j] \notin DOMAIN aliases
                            /\ \A i \in 1..(j - 1) : ResolvesTo(cs[i], "Switch") ) =>
                              SomeResultsOf(t) =
                                  Append(GroupSwitches(t, j - 1),
                                         ErrRes("UnexpectedShortArgument", <<>>, s, cs[j], t))
    /\ \A i \in 1..Len(results) :
           results[i].kind \in {"UnexpectedLongArgument", "UnexpectedShortArgument"} =>
               IsError(results[i]) /\ finished

\* a group gave a Switch event and then the error for its second character
C15_Witness ==
    \E t \in TokenIndices :
        /\ IsGroupToken(args[t + 1])
        /\ Len(SomeResultsOf(t)) = 2
        /\ IsEvent(SomeResultsOf(t)[1])
        /\ SomeResultsOf(t)[2].kind = "UnexpectedShortArgument"
        /\ SomeResultsOf(t)[2].ch = args[t + 1][3]

(***************************************************************************)
(* C16: a switch defined with the empty long name is matched by "--" and   *)
(* yields Switch(""); the parse goes on afterwards: the following tokens   *)
(* are classified as usual, until the end of the arguments returns None.   *)
(***************************************************************************)
HasEmptySwitch == <<>> \in DOMAIN options /\ options[<<>>] = "Switch"

TokenResults == SelectSeq(results, LAMBDA r : r.tok # NoTok)

\* the number of tokens consumed, told from the results
Consumed ==
    IF TokenResults = <<>>
    THEN 0
    ELSE LET r == Last(TokenResults)
         IN  r.tok + 1
             + (IF \/ IsEvent(r) /\ r.kind = "Option"
                   \/ r.kind = "MissingParameter" /\ r.tok + 1 < Len(args)
                THEN 1 ELSE 0)

C17_RemainderIsRest ==
    remainder_view.called =>
        /\ remainder_view.slice = SubSeq(args, Consumed + 1, Len(args))
        /\ \A i \in 1..Len(remainder_view.slice) :
               remainder_view.slice[i] = args[Len(args) - Len(remainder_view.slice) + i]

\* remainder() was called right after Switch("") for "--" at position 0
C17_Witness ==
    /\ remainder_view.called
    /\ Len(args) = 2
    /\ results = <<OkRes("Switch", <<>>, <<>>, 0)>>
    /\ args[1] = <<Dash, Dash>>
    /\ remainder_view.slice = <<args[2]>>

(***************************************************************************)
(* C18: a call of remainder() changes no field of the parse: the token     *)
(* index, the next slot, the trail count, the pending group and the        *)
(* finished flag, nor what next() has returned.                            *)
(***************************************************************************)
C18_RemainderReadsOnly ==
    [][ remainder_view'.called =>
           UNCHANGED <<expected, args, index, finished, positional, next_position,
                       trail, trail_args_found, options, aliases,
                       remaining_grouped_shorts, results, panicked, idle>> ]_vars

\* remainder() was called between two calls of next()
C18_Witness ==
    /\ remainder_view.called
    /\ results # <<>>
    /\ ~finished
    /\ index < Len(args)

(***************************************************************************)
(* C19: the result of a call of next() does not depend on the iteration    *)
(* order of the option table: for a defined long flag every order of the   *)
(* keys gives the result that was returned.                                *)
(***************************************************************************)
ReadsDefinedLong ==
    /\ ~finished
    /\ ~panicked
    /\ remaining_grouped_shorts = <<>>
    /\ index < Len(args)
    /\ IsLongToken(args[index + 1])
    /\ SliceFrom(args[index + 1], 2) \in DOMAIN options
    /\ results' # results

C19_OrderIndependent ==
    [][ ReadsDefinedLong =>
           \A o \in KeyOrders(options) :
               LET name == SliceFrom(args[index + 1], 2)
                   read == read_option(find_key(o, name), options[name], index + 1, index)
               IN  /\ results' = Append(results, read.res)
                   /\ index' = read.index
                   /\ finished' = read.finished ]_vars

\* a long flag was resolved in a table with two keys
C19_Witness ==
    /\ Cardinality(DOMAIN options) >= 2
    /\ results # <<>>
    /\ IsEvent(Last(results))
    /\ Last(results).tok \in TokenIndices
    /\ IsLongToken(args[Last(results).tok + 1])
    /\ Last(results).name = <<"a">>

(***************************************************************************)
(* Parse::new on its own: the compiler applied to every definition list    *)
(* of up to MaxDefs definitions from a pool with clashing names and        *)
(* aliases.                                                                *)
(***************************************************************************)
DefPool ==
    { DefPositional(<<"a">>), DefPositional(<<"c">>),
      DefRequiredTrail, DefOptionalTrail,
      DefSwitch(<<"a">>, "a"), DefSwitch(<<"a">>, NoShort),
      DefOption(<<"c">>, "c"), DefOption(<<"c">>, "a"), DefOption(<<"a">>, "c") }

DefListsUpTo(n) == UNION {[1..k -> DefPool] : k \in 0..n}

\* before the call of Parse::new(expected, args)
InitNew ==
    /\ expected \in DefListsUpTo(MaxDefs)
    /\ args = <<>>
    /\ created = FALSE
    /\ error = NoError
    /\ index = 0
    /\ finished = FALSE
    /\ positional = <<>>
    /\ next_position = 0
    /\ trail = "None"
    /\ trail_args_found = 0
    /\ options = EmptyMap
    /\ aliases = EmptyMap
    /\ remaining_grouped_shorts = <<>>
    /\ results = <<>>
    /\ panicked = FALSE
    /\ idle = 0
    /\ remainder_view = NoView
    /\ program = <<>>
    /\ subcommands = {}
    /\ delegation = NoCall

\* Parse::new (lines 241-294): the error of the first offending definition,
\* or the parse with the compiled tables
New ==
    /\ ~created
    /\ created' = TRUE
    /\ error' = new(expected).error
    /\ IF new(expected).error = NoError
       THEN /\ positional' = new(expected).positional
            /\ trail' = new(expected).trail
            /\ options' = new(expected).options
            /\ aliases' = new(expected).aliases
       ELSE UNCHANGED <<positional, trail, options, aliases>>
    /\ UNCHANGED <<expected, args, index, finished, next_position, trail_args_found,
                   remaining_grouped_shorts, results, panicked, idle, remainder_view,
                   program, subcommands, delegation>>

NextNew == New

SpecNew == InitNew /\ [][NextNew]_vars

IsNamed(def) == def.kind \in {"Switch", "Option"}

\* the names of the positional definitions, in the order of the list
RECURSIVE PositionalNames(_)
PositionalNames(defs) ==
    IF defs = <<>>
    THEN <<>>
    ELSE IF Last(defs).kind = "Positional"
         THEN Append(PositionalNames(SubSeq(defs, 1, Len(defs) - 1)), Last(defs).name)
         ELSE PositionalNames(SubSeq(defs, 1, Len(defs) - 1))

\* all names distinct (the long names of the switches and options, and the
\* names of the positionals), all aliases distinct, at most one trail
WellFormed(defs) ==
    \A i \in 1..Len(defs) : \A j \in 1..Len(defs) :
        i < j =>
            /\ (IsNamed(defs[i]) /\ IsNamed(defs[j])) =>
                   /\ defs[i].name # defs[j].name
                   /\ defs[i].short = NoShort \/ defs[i].short # defs[j].short
            /\ (defs[i].kind = "Positional" /\ defs[j].kind = "Positional") =>
                   defs[i].name # defs[j].name
            /\ ~(defs[i].kind = "Trail" /\ defs[j].kind = "Trail")

(***************************************************************************)
(* C20: Parse::new succeeds for every definition list with all names       *)
(* distinct, all aliases distinct and at most one trail, and the compiled  *)
(* slot list holds the positional names in their input order.              *)
(***************************************************************************)
C20_CompileSucceeds ==
    (created /\ WellFormed(expected)) =>
        /\ error = NoError
        /\ positional = PositionalNames(expected)

\* a list with the positionals "c" and "a", in this order, and an option
\* between them was compiled
C20_Witness ==
    /\ created
    /\ error = NoError
    /\ Len(expected) = 3
    /\ IsNamed(expected[2])
    /\ positional = <<<<"c">>, <<"a">>>>


\* the first definition that makes its prefix of the list ill-formed
FirstInvalid(defs) ==
    CHOOSE j \in 1..Len(defs) :
        /\ ~WellFormed(SubSeq(defs, 1, j))
        /\ WellFormed(SubSeq(defs, 1, j - 1))

\* the earlier switches and options with the long name of the j-th definition
SameName(defs, j) ==
    {i \in 1..(j - 1) : IsNamed(defs[i]) /\ defs[i].name = defs[j].name}

\* the earlier switches and options with the alias of the j-th definition
SameAlias(defs, j) ==
    {i \in 1..(j - 1) : /\ IsNamed(defs[i])
                        /\ defs[i].short # NoShort
                        /\ defs[i].short = defs[j].short}

(***************************************************************************)
(* C21: Parse::new returns no parse for a list whose first invalid         *)
(* definition is a switch or option: OptionDefinedTwice(name) when its     *)
(* long name repeats an earlier one, otherwise (its alias is taken)        *)
(* SameShortName(its long name, the long name holding the alias).          *)
(***************************************************************************)
C21_NamedDuplicates ==
    (created /\ ~WellFormed(expected) /\ IsNamed(expected[FirstInvalid(expected)])) =>
        LET j == FirstInvalid(expected)
        IN  IF SameName(expected, j) # {}
            THEN error = DefError("OptionDefinedTwice", expected[j].name, <<>>)
            ELSE \E i \in SameAlias(expected, j) :
                     error = DefError("SameShortName", expected[j].name, expected[i].name)

\* an option "c" with alias 'a' was rejected after the switch "a" with alias 'a'
C21_Witness ==
    /\ created
    /\ Len(expected) = 3
    /\ ~WellFormed(expected)
    /\ FirstInvalid(expected) = 3
    /\ error = DefError("SameShortName", <<"c">>, <<"a">>)


(***************************************************************************)
(* C22: Parse::new returns PositionalDefinedTwice(name), and no parse, for *)
(* every list whose first invalid definition is a positional repeating an  *)
(* earlier positional name.                                                *)
(***************************************************************************)
C22_PositionalTwice ==
    (created /\ ~WellFormed(expected)
             /\ expected[FirstInvalid(expected)].kind = "Positional") =>
        error = DefError("PositionalDefinedTwice",
                         expected[FirstInvalid(expected)].name, <<>>)

\* the positional "c" was rejected as the third definition, after a switch
C22_Witness ==
    /\ created
    /\ Len(expected) = 3
    /\ IsNamed(expected[2])
    /\ error = DefError("PositionalDefinedTwice", <<"c">>, <<>>)

\* the trail definitions of a list
Trails(defs) == {i \in 1..Len(defs) : defs[i].kind = "Trail"}

(***************************************************************************)
(* C23: Parse::new returns TwoTrailsDefined for every list whose first     *)
(* invalid definition is a second trail, of either arity, so a compiled    *)
(* list has at most one trail.                                             *)
(***************************************************************************)
C23_TwoTrails ==
    /\ (created /\ ~WellFormed(expected)
                /\ expected[FirstInvalid(expected)].kind = "Trail") =>
           error = DefError("TwoTrailsDefined", <<>>, <<>>)
    /\ (created /\ error = NoError) =>
           /\ Cardinality(Trails(expected)) <= 1
           /\ \A i \in Trails(expected) : trail = expected[i].trail
           /\ Trails(expected) = {} => trail = "None"

\* an optional trail was rejected after a required trail
C23_Witness ==
    /\ created
    /\ Len(expected) = 2
    /\ expected[1] = DefRequiredTrail
    /\ expected[2] = DefOptionalTrail
    /\ error = DefError("TwoTrailsDefined", <<>>, <<>>)


(***************************************************************************)
(* The function parse(program, args, definitions) of the newer revision    *)
(* (re-exported by lib.rs, called by the examples, its definition kinds    *)
(* declared in argdef.rs).  Its body is not among the sources: compile and *)
(* the steps below follow sections 4.1 to 4.3 of the specification.        *)
(***************************************************************************)
\* ArgDef::cmd(name, handler); the handler is named by the subcommand
DefSubcommand(n) == [kind |-> "Subcommand", name |-> n, short |-> NoShort, trail |-> "None"]
\* ArgDef::interrupt(name, callback), with or without .short(s)
DefInterrupt(n, s) == [kind |-> "Interrupt", name |-> n, short |-> s, trail |-> "None"]

compile_start ==
    [error |-> NoError, positional |-> <<>>, trail |-> "None",
     options |-> EmptyMap, aliases |-> EmptyMap,
     used_names |-> {}, used_positional_names |-> {}, subcommands |-> {}]

\* section 4.1, one definition: interrupts are registered like switches and
\* options, subcommands go to the handler map
compile_step(st, def) ==
    CASE def.kind = "Interrupt" ->
            LET added == add_name(st, def)
            IN  IF added.error # NoError
                THEN added
                ELSE [added EXCEPT !.options = Insert(@, def.name, def.kind)]
      [] def.kind = "Subcommand" ->
            IF def.name \in st.subcommands
            THEN [st EXCEPT !.error = DefError("SubcommandDefinedTwice", def.name, <<>>)]
            ELSE [st EXCEPT !.subcommands = @ \cup {def.name}]
      [] OTHER -> new_step(st, def)

RECURSIVE compile_loop(_, _, _)
compile_loop(defs, i, st) ==
    IF i > Len(defs) \/ st.error # NoError
    THEN st
    ELSE compile_loop(defs, i + 1, compile_step(st, defs[i]))

\* section 4.1 without the cross-check
compile_without_cross_check(defs) == compile_loop(defs, 1, compile_start)

\* section 4.1: the definitions in input order, then the cross-check
compile(defs) ==
    LET st == compile_loop(defs, 1, compile_start)
    IN  IF st.error # NoError
        THEN st
        ELSE IF (st.positional # <<>> \/ st.trail # "None") /\ st.subcommands # {}
             THEN [st EXCEPT !.error = DefError("PositionalAndSubcommandMixed", <<>>, <<>>)]
             ELSE st

\* definitions of every kind, with a repeated subcommand name among them
CompilePool ==
    { DefPositional(<<"a">>), DefOptionalTrail, DefRequiredTrail,
      DefSubcommand(<<"a">>), DefSubcommand(<<"c">>),
      DefInterrupt(<<"a">>, "a"), DefSwitch(<<"c">>, "c"), DefOption(<<"a">>, "c") }

CompileLists == UNION {[1..k -> CompilePool] : k \in 0..MaxDefs}

\* before the call of parse(program, args, expected)
InitCompile ==
    /\ expected \in CompileLists
    /\ args = <<>>
    /\ created = FALSE
    /\ error = NoError
    /\ index = 0
    /\ finished = FALSE
    /\ positional = <<>>
    /\ next_position = 0
    /\ trail = "None"
    /\ trail_args_found = 0
    /\ options = EmptyMap
    /\ aliases = EmptyMap
    /\ remaining_grouped_shorts = <<>>
    /\ results = <<>>
    /\ panicked = FALSE
    /\ idle = 0
    /\ remainder_view = NoView
    /\ program = <<>>
    /\ subcommands = {}
    /\ delegation = NoCall

\* the compilation at the start of parse(): a definition set or an error,
\* never a part of a set
Compile ==
    /\ ~created
    /\ created' = TRUE
    /\ error' = compile(expected).error
    /\ IF compile(expected).error = NoError
       THEN /\ positional' = compile(expected).positional
            /\ trail' = compile(expected).trail
            /\ options' = compile(expected).options
            /\ aliases' = compile(expected).aliases
            /\ subcommands' = compile(expected).subcommands
       ELSE UNCHANGED <<positional, trail, options, aliases, subcommands>>
    /\ UNCHANGED <<expected, args, index, finished, next_position, trail_args_found,
                   remaining_grouped_shorts, results, panicked, idle, remainder_view,
                   program, delegation>>

NextCompile == Compile

SpecCompile == InitCompile /\ [][NextCompile]_vars

KindsOf(defs) == {defs[i].kind : i \in 1..Len(defs)}

\* a list with a positional or a trail, and a subcommand
Mixed(defs) ==
    /\ KindsOf(defs) \cap {"Positional", "Trail"} # {}
    /\ "Subcommand" \in KindsOf(defs)

\* no definition of the list is rejected on its own: names, aliases and
\* subcommand names are distinct and there is at most one trail
NoDuplicates(defs) ==
    \A i \in 1..Len(defs) : \A j \in 1..Len(defs) :
        i < j =>
            /\ (defs[i].kind \in {"Switch", "Option", "Interrupt"}
                    /\ defs[j].kind \in {"Switch", "Option", "Interrupt"}) =>
                   /\ defs[i].name # defs[j].name
                   /\ defs[i].short = NoShort \/ defs[i].short # defs[j].short
            /\ (defs[i].kind = defs[j].kind /\ defs[i].kind \in {"Positional", "Subcommand"}) =>
                   defs[i].name # defs[j].name
            /\ ~(defs[i].kind = "Trail" /\ defs[j].kind = "Trail")

Label(parent, name) == IF parent = <<>> THEN name ELSE parent \o <<" ">> \o name

\* what a subcommand handler may return: Ok(None), Ok(Some(code)) or an error
HandlerResults == {"Ok(None)", "Ok(Some(1))", "Err"}

\* a matched flag whose interrupt leaves the parse running
flag_outcome_interrupt_continues(name, kind, last, idx, tok, token, c) ==
    CASE kind = "Switch" ->
            [res |-> OkRes("Switch", name, <<>>, tok), index |-> idx, finished |-> FALSE]
      [] kind = "Interrupt" ->
            [res |-> OkRes("Interrupt", name, <<>>, tok), index |-> idx, finished |-> FALSE]
      [] kind = "Option" ->
            IF ~last
            THEN [res |-> ErrRes("GroupedNonSwitch", <<>>, token, c, tok),
                  index |-> idx, finished |-> TRUE]
            ELSE IF idx < Len(args) /\ ~StartsWith(args[idx + 1], <<Dash>>)
                 THEN [res |-> OkRes("Option", name, args[idx + 1], tok),
                       index |-> idx + 1, finished |-> FALSE]
                 ELSE [res |-> ErrRes("MissingParameter", <<>>, token, "", tok),
                       index |-> idx, finished |-> TRUE]

\* a matched flag (steps 1 to 3): the event of a switch; the event of an
\* interrupt, which stops the parse; the parameter of an option, which only
\* the last character of a group may take
flag_outcome(name, kind, last, idx, tok, token, c) ==
    CASE kind = "Switch" ->
            [res |-> OkRes("Switch", name, <<>>, tok), index |-> idx, finished |-> FALSE]
      [] kind = "Interrupt" ->
            [res |-> OkRes("Interrupt", name, <<>>, tok), index |-> idx, finished |-> TRUE]
      [] kind = "Option" ->
            IF ~last
            THEN [res |-> ErrRes("GroupedNonSwitch", <<>>, token, c, tok),
                  index |-> idx, finished |-> TRUE]
            ELSE IF idx < Len(args) /\ ~StartsWith(args[idx + 1], <<Dash>>)
                 THEN [res |-> OkRes("Option", name, args[idx + 1], tok),
                       index |-> idx + 1, finished |-> FALSE]
                 ELSE [res |-> ErrRes("MissingParameter", <<>>, token, "", tok),
                       index |-> idx, finished |-> TRUE]

\* one character of a short token, with the characters after it
short_outcome(c, rest, idx, tok, token) ==
    IF c \notin DOMAIN aliases
    THEN [res |-> ErrRes("UnknownShortArgument", <<>>, token, c, tok),
          index |-> idx, finished |-> TRUE]
    ELSE flag_outcome(aliases[c], options[aliases[c]], rest = <<>>, idx, tok, token, c)

\* the handler called with the label of the parent
delegate_parent_label(name, idx, r) ==
    [called |-> TRUE, name |-> name, program |-> program,
     args |-> SubSeq(args, idx + 1, Len(args)), handler_result |-> r, result |-> r]

\* step 4, a matching subcommand name: the handler gets the extended label
\* and the tokens from idx on, and its result is the result of the parse
delegate(name, idx, r) ==
    [called |-> TRUE, name |-> name, program |-> Label(program, name),
     args |-> SubSeq(args, idx + 1, Len(args)), handler_result |-> r, result |-> r]


\* switches, options, interrupts, subcommands, positionals and trails in
\* lists that compile
ParseDefLists ==
    { \* interrupt "a"/'a', switch "c"/'c', positional "a", a required trail
      << DefInterrupt(<<"a">>, "a"), DefSwitch(<<"c">>, "c"),
         DefPositional(<<"a">>), DefRequiredTrail >>,
      \* subcommand "a", switch "c"/'c'
      << DefSubcommand(<<"a">>), DefSwitch(<<"c">>, "c") >>,
      \* subcommands "a" and "c", option "a"/'a', interrupt "c"/'c'
      << DefSubcommand(<<"a">>), DefSubcommand(<<"c">>),
         DefOption(<<"a">>, "a"), DefInterrupt(<<"c">>, "c") >>,
      \* an optional trail, option "c"/'c', switch "a"/'a'
      << DefOptionalTrail, DefOption(<<"c">>, "c"), DefSwitch(<<"a">>, "a") >> }

\* section 4.2 has no rule for the token "-"
ParseArgLists == UNION {[1..n -> Tokens \ {<<Dash>>}] : n \in 0..MaxArgs}

\* the parent's label: none, or "p"
Programs == {<<>>, <<"p">>}

\* parse(program, args, expected) after the compilation succeeded
InitParse ==
    /\ expected \in {d \in ParseDefLists : compile(d).error = NoError}
    /\ args \in ParseArgLists
    /\ program \in Programs
    /\ created = TRUE
    /\ error = NoError
    /\ index = 0
    /\ finished = FALSE
    /\ positional = compile(expected).positional
    /\ next_position = 0
    /\ trail = compile(expected).trail
    /\ trail_args_found = 0
    /\ options = compile(expected).options
    /\ aliases = compile(expected).aliases
    /\ subcommands = compile(expected).subcommands
    /\ remaining_grouped_shorts = <<>>
    /\ results = <<>>
    /\ panicked = FALSE
    /\ idle = 0
    /\ remainder_view = NoView
    /\ delegation = NoCall

\* parse() has not returned
Running == created /\ error = NoError /\ ~finished /\ ~delegation.called

\* step 1: the next pending character of a group
ParseGrouped ==
    /\ Running
    /\ remaining_grouped_shorts # <<>>
    /\ LET out == short_outcome(Head(remaining_grouped_shorts),
                                Tail(remaining_grouped_shorts),
                                index, index - 1, args[index])
       IN  /\ Return(out.res)
           /\ index' = out.index
           /\ finished' = out.finished
    /\ remaining_grouped_shorts' = Tail(remaining_grouped_shorts)
    /\ UNCHANGED <<expected, args, positional, next_position, trail, trail_args_found,
                   options, aliases, panicked, idle, created, error, remainder_view,
                   program, subcommands, delegation>>

\* step 2: a token with two leading dashes
ParseLong ==
    /\ Running
    /\ remaining_grouped_shorts = <<>>
    /\ index < Len(args)
    /\ StartsWith(args[index + 1], <<Dash, Dash>>)
    /\ LET token == args[index + 1]
           name == SliceFrom(token, 2)
           out == IF name \notin DOMAIN options
                  THEN [res |-> ErrRes("UnknownLongArgument", <<>>, token, "", index),
                        index |-> index + 1, finished |-> TRUE]
                  ELSE flag_outcome(name, options[name], TRUE, index + 1, index, token, "")
       IN  /\ Return(out.res)
           /\ index' = out.index
           /\ finished' = out.finished
    /\ UNCHANGED <<expected, args, positional, next_position, trail, trail_args_found,
                   options, aliases, remaining_grouped_shorts, panicked, idle, created,
                   error, remainder_view, program, subcommands, delegation>>

\* step 3: a token with one leading dash: the first character is resolved,
\* the others are queued
ParseShort ==
    /\ Running
    /\ remaining_grouped_shorts = <<>>
    /\ index < Len(args)
    /\ StartsWith(args[index + 1], <<Dash>>)
    /\ ~StartsWith(args[index + 1], <<Dash, Dash>>)
    /\ Len(args[index + 1]) > 1
    /\ LET token == args[index + 1]
           chars == SliceFrom(token, 1)
           out == short_outcome(Head(chars), Tail(chars), index + 1, index, token)
       IN  /\ Return(out.res)
           /\ index' = out.index
           /\ finished' = out.finished
           /\ remaining_grouped_shorts' = Tail(chars)
    /\ UNCHANGED <<expected, args, positional, next_position, trail, trail_args_found,
                   options, aliases, panicked, idle, created, error, remainder_view,
                   program, subcommands, delegation>>


\* step 4: a token without a leading dash: a positional slot, else a
\* subcommand, else the trail
ParsePlain ==
    /\ Running
    /\ remaining_grouped_shorts = <<>>
    /\ index < Len(args)
    /\ ~StartsWith(args[index + 1], <<Dash>>)
    /\ index' = index + 1
    /\ LET token == args[index + 1]
       IN  IF next_position < Len(positional)
           THEN /\ Return(OkRes("Positional", positional[next_position + 1], token, index))
                /\ next_position' = next_position + 1
                /\ UNCHANGED <<trail_args_found, finished, delegation>>
           ELSE IF subcommands # {}
           THEN IF token \in subcommands
                THEN /\ \E r \in HandlerResults : delegation' = delegate(token, index + 1, r)
                     /\ finished' = TRUE
                     /\ UNCHANGED <<results, next_position, trail_args_found>>
                ELSE /\ Return(ErrRes("UnknownSubcommand", <<>>, token, "", index))
                     /\ finished' = TRUE
                     /\ UNCHANGED <<next_position, trail_args_found, delegation>>
           ELSE IF trail # "None"
           THEN /\ Return(OkRes("TrailPart", <<>>, token, index))
                /\ trail_args_found' = trail_args_found + 1
                /\ UNCHANGED <<next_position, finished, delegation>>
           ELSE /\ Return(ErrRes("UnexpectedPositional", <<>>, token, "", index))
                /\ finished' = TRUE
                /\ UNCHANGED <<next_position, trail_args_found, delegation>>
    /\ UNCHANGED <<expected, args, positional, trail, options, aliases,
                   remaining_grouped_shorts, panicked, idle, created, error,
                   remainder_view, program, subcommands>>

\* step 5: no token and no pending character is left
ParseEnd ==
    /\ Running
    /\ remaining_grouped_shorts = <<>>
    /\ index >= Len(args)
    /\ finished' = TRUE
    /\ Return(IF next_position < Len(positional)
              THEN ErrRes("MissingPositional", positional[next_position + 1], <<>>, "", NoTok)
              ELSE IF trail = "OnePlus" /\ trail_args_found = 0
                   THEN ErrRes("MissingTrail", <<>>, <<>>, "", NoTok)
                   ELSE NoneRes)
    /\ UNCHANGED <<expected, args, index, positional, next_position, trail,
                   trail_args_found, options, aliases, remaining_grouped_shorts,
                   panicked, idle, created, error, remainder_view, program,
                   subcommands, delegation>>

NextParse == ParseGrouped \/ ParseLong \/ ParseShort \/ ParsePlain \/ ParseEnd

SpecParse == InitParse /\ [][NextParse]_vars

\* the interrupt events returned so far
Interrupts == {i \in 1..Len(results) : results[i].kind = "Interrupt"}

ReadsPlainWithSubcommands ==
    /\ Running
    /\ subcommands # {}
    /\ next_position >= Len(positional)
    /\ remaining_grouped_shorts = <<>>
    /\ index < Len(args)
    /\ IsPlainToken(args[index + 1])
    /\ index' = index + 1

(***************************************************************************)
(* C25: with subcommands defined and no unfilled positional slot, a token  *)
(* without a dash that is a registered subcommand name makes the parse     *)
(* call that handler with the label parent + " " + name (the bare name for *)
(* an empty parent) and all the tokens after it, and the handler's result  *)
(* is the result of the parse, which returns nothing more; any other such  *)
(* token gives UnknownSubcommand(token) and no handler is called.          *)
(***************************************************************************)
C25_SubcommandDelegates ==
    [][ReadsPlainWithSubcommands =>
           LET token == args[index + 1]
           IN  IF token \in subcommands
               THEN /\ delegation'.called
                    /\ delegation'.name = token
                    /\ delegation'.program =
                           (IF program = <<>> THEN token ELSE program \o <<" ">> \o token)
                    /\ delegation'.args = SubSeq(args, index + 2, Len(args))
                    /\ delegation'.handler_result \in HandlerResults
                    /\ delegation'.result = delegation'.handler_result
                    /\ results' = results
                    /\ ~Running'
               ELSE /\ results' = Append(results,
                                         ErrRes("UnknownSubcommand", <<>>, token, "", index))
                    /\ delegation' = NoCall
                    /\ finished']_vars

\* the handler "a" was called by the parent "p" with the label "p a" and
\* the long flag after its name, and returned an error
C25_Witness ==
    /\ delegation.called
    /\ delegation.program = <<"p", " ", "a">>
    /\ Len(delegation.args) = 1
    /\ IsLongToken(delegation.args[1])
    /\ delegation.result = "Err"


\* the step is a call of next()
CallsNext == Len(results') = Len(results) + 1

(***************************************************************************)
(* C27: a call of next() on a finished parse returns None and changes      *)
(* nothing: index, next_position, trail_args_found, the pending grouped    *)
(* characters and finished are as before, and so is the slice remainder()  *)
(* returns.                                                                *)
(***************************************************************************)
C27_FinishedCallIsPure ==
    [][(finished /\ ~panicked /\ CallsNext) =>
           /\ Last(results') = NoneRes
           /\ index' = index
           /\ next_position' = next_position
           /\ trail_args_found' = trail_args_found
           /\ remaining_grouped_shorts' = remaining_grouped_shorts
           /\ finished'
           /\ remainder' = remainder]_vars

\* next() was called on a parse finished by an error inside a group, with a
\* character still pending and a token unread
C27_Witness ==
    /\ finished
    /\ idle >= 1
    /\ remaining_grouped_shorts # <<>>
    /\ index < Len(args)


(***************************************************************************)
(* Parses of token lists long enough to hold an option with its parameter  *)
(* twice, over a few tokens.                                               *)
(***************************************************************************)
\* "a", "-a", "--a", "-c", "--c" and the group "-aa"
RepeatTokens ==
    { <<"a">>, <<Dash, "a">>, <<Dash, Dash, "a">>, <<Dash, "c">>, <<Dash, Dash, "c">>,
      <<Dash, "a", "a">> }

RepeatArgLists == UNION {[1..n -> RepeatTokens] : n \in 0..MaxRepeatArgs}

InitRepeat ==
    /\ expected \in {d \in DefLists : new(d).error = NoError}
    /\ args \in RepeatArgLists
    /\ index = 0
    /\ finished = FALSE
    /\ positional = new(expected).positional
    /\ next_position = 0
    /\ trail = new(expected).trail
    /\ trail_args_found = 0
    /\ options = new(expected).options
    /\ aliases = new(expected).aliases
    /\ remaining_grouped_shorts = <<>>
    /\ results = <<>>
    /\ panicked = FALSE
    /\ idle = 0
    /\ created = TRUE
    /\ error = NoError
    /\ remainder_view = NoView
    /\ program = <<>>
    /\ subcommands = {}
    /\ delegation = NoCall

SpecRepeat == InitRepeat /\ [][Next]_vars

\* the tokens from index i on are defined single flags, each option flag
\* followed by a token without a dash
RECURSIVE OnlyValidFlags(_)
OnlyValidFlags(i) ==
    IF i >= Len(args)
    THEN TRUE
    ELSE /\ IsDefinedFlag(args[i + 1])
         /\ IF IsOptionFlag(args[i + 1])
            THEN i + 1 < Len(args) /\ IsPlainToken(args[i + 2]) /\ OnlyValidFlags(i + 2)
            ELSE OnlyValidFlags(i + 1)

\* one event for each flag from index i on, in the order of the tokens
RECURSIVE FlagEvents(_)
FlagEvents(i) ==
    IF i >= Len(args)
    THEN <<>>
    ELSE IF IsOptionFlag(args[i + 1])
         THEN <<OkRes("Option", FlagName(args[i + 1]), args[i + 2], i)>> \o FlagEvents(i + 2)
         ELSE <<OkRes("Switch", FlagName(args[i + 1]), <<>>, i)>> \o FlagEvents(i + 1)

(***************************************************************************)
(* C28: for a token list made of defined flags with valid parameters, in   *)
(* which the same flag may occur any number of times, the finished parse   *)
(* has returned for the tokens one Switch or Option event per occurrence,  *)
(* in order, and no error (an error can only come from the end of the      *)
(* input: a missing positional or trail).                                  *)
(***************************************************************************)
C28_RepetitionAllowed ==
    (finished /\ OnlyValidFlags(0)) =>
        /\ SelectSeq(results, LAMBDA r : r.tok # NoTok) = FlagEvents(0)
        /\ \A i \in 1..Len(results) :
               IsError(results[i]) => results[i].kind \in {"MissingPositional", "MissingTrail"}

\* the same option was given twice, once by its alias and once by its long
\* name, and the parse finished with two Option events
C28_Witness ==
    /\ finished
    /\ Len(args) = 4
    /\ OnlyValidFlags(0)
    /\ IsShortToken(args[1]) /\ IsLongToken(args[3])
    /\ Len(Events) = 2
    /\ Events[1].kind = "Option" /\ Events[2].kind = "Option"
    /\ Events[1].name = Events[2].name


(***************************************************************************)
(* C29: while characters of a grouped short token are pending on an        *)
(* unfinished parse, a call of next() resolves exactly one of them, the    *)
(* next in reading order, and reads no fresh token: index and the slice    *)
(* remainder() returns are unchanged and the pending queue is one shorter. *)
(***************************************************************************)
C29_PendingResolvesOne ==
    [][(~finished /\ ~panicked /\ remaining_grouped_shorts # <<>> /\ CallsNext) =>
           LET n == Len(remaining_grouped_shorts)
           IN  /\ index' = index
               /\ remainder' = remainder
               /\ remaining_grouped_shorts' = SubSeq(remaining_grouped_shorts, 1, n - 1)
               /\ Last(results').tok = remaining_grouped_shorts[n][1]
               /\ ~IsNone(Last(results'))
               /\ IsError(Last(results')) => Last(results').ch = remaining_grouped_shorts[n][2]
               /\ IsEvent(Last(results')) =>
                      /\ Last(results').kind = "Switch"
                      /\ Last(results').name = aliases[remaining_grouped_shorts[n][2]]
               /\ next_position' = next_position
               /\ trail_args_found' = trail_args_found]_vars

\* the first character of a group was resolved to a switch while the second
\* was pending and a token was unread
C29_Witness ==
    /\ Len(remaining_grouped_shorts) = 1
    /\ Len(results) = 2
    /\ IsEvent(Last(results))
    /\ ~finished
    /\ index = 1
    /\ Len(args) = 2


(***************************************************************************)
(* The caller that keeps calling next(): every call that can be made is    *)
(* eventually made.                                                        *)
(***************************************************************************)
NextCall ==
    \/ NextFinished
    \/ NextGrouped
    \/ NextEnd
    \/ NextLong
    \/ NextShortGroup
    \/ NextShortSingle
    \/ NextPositional

SpecLive == Init /\ [][Next]_vars /\ WF_vars(NextCall)

\* the characters of the grouped short tokens among the first n tokens
RECURSIVE GroupChars(_)
GroupChars(n) ==
    IF n = 0
    THEN 0
    ELSE GroupChars(n - 1)
         + (IF IsGroupToken(args[n]) THEN Len(CharsOf(args[n])) ELSE 0)

\* the calls of next() made on the parse while it was not finished
CallsBeforeFinished == Len(results) - idle

(***************************************************************************)
(* C30: repeated calls of next() reach the finished state; each call on an *)
(* unfinished parse consumes a token, removes a pending grouped character  *)
(* or sets finished; and at most (tokens + characters of grouped short     *)
(* tokens + 1) calls are made before the parse is finished.                *)
(***************************************************************************)
C30_Terminates ==
    /\ <>finished
    /\ [](CallsBeforeFinished <= Len(args) + GroupChars(Len(args)) + 1)
    /\ [][(CallsNext /\ ~finished) =>
              \/ index' > index
              \/ Len(remaining_grouped_shorts') < Len(remaining_grouped_shorts)
              \/ finished']_vars


\* the error the j-th definition is rejected with, given that the ones
\* before it were accepted: a repeated long name before a taken alias
OffenceOf(defs, j) ==
    CASE defs[j].kind = "Positional" ->
            DefError("PositionalDefinedTwice", defs[j].name, <<>>)
      [] defs[j].kind = "Trail" ->
            DefError("TwoTrailsDefined", <<>>, <<>>)
      [] IsNamed(defs[j]) ->
            IF SameName(defs, j) # {}
            THEN DefError("OptionDefinedTwice", defs[j].name, <<>>)
            ELSE DefError("SameShortName", defs[j].name,
                          defs[CHOOSE i \in SameAlias(defs, j) : TRUE].name)

(***************************************************************************)
(* C31: Parse::new returns the error of the first offending definition in  *)
(* input order, whatever follows it, and for a switch or option that       *)
(* repeats both the long name and the alias of earlier definitions the     *)
(* error is OptionDefinedTwice, not SameShortName.                         *)
(***************************************************************************)
C31_FirstOffenceReported ==
    (created /\ ~WellFormed(expected)) =>
        /\ error = OffenceOf(expected, FirstInvalid(expected))
        /\ (/\ IsNamed(expected[FirstInvalid(expected)])
            /\ SameName(expected, FirstInvalid(expected)) # {}
            /\ SameAlias(expected, FirstInvalid(expected)) # {})
               => error.type = "OptionDefinedTwice"

\* the second definition repeats the long name and the alias of the first
\* and is reported; the third, whose alias is taken too, is not
C31_Witness ==
    /\ created
    /\ Len(expected) = 3
    /\ expected[1] = DefSwitch(<<"a">>, "a")
    /\ expected[2] = DefSwitch(<<"a">>, "a")
    /\ expected[3] = DefOption(<<"c">>, "a")
    /\ error = DefError("OptionDefinedTwice", <<"a">>, <<>>)


(***************************************************************************)
(* C32: in every state reached by calls of next() and remainder(),         *)
(* 0 <= index <= number of tokens and 0 <= next_position <= number of      *)
(* positional definitions; index, next_position and trail_args_found never *)
(* decrease; so the slice args[index..] of remainder() is always in range. *)
(***************************************************************************)
C32_CursorInRange ==
    /\ [](/\ 0 <= index /\ index <= Len(args)
          /\ 0 <= next_position /\ next_position <= Len(positional)
          /\ 0 <= trail_args_found
          /\ remainder_view.called => remainder_view.slice = SubSeq(args, index + 1, Len(args)))
    /\ [][/\ index' >= index
          /\ next_position' >= next_position
          /\ trail_args_found' >= trail_args_found]_vars

\* remainder() was called with every token read, the positional slot filled
\* and a trail value counted, and returned the empty slice
C32_Witness ==
    /\ remainder_view.called
    /\ remainder_view.slice = <<>>
    /\ Len(args) = 2
    /\ index = Len(args)
    /\ next_position = Len(positional)
    /\ next_position > 0
    /\ trail_args_found > 0


(***************************************************************************)
(* C33: every alias of a parse maps to a long name that is a key of the    *)
(* option table; next() and remainder() never change the two tables; so    *)
(* the lookups behind expect("Invariant broken") and the unwrap() of the   *)
(* key search never fail: the only call that does not return is the one    *)
(* reading the token "-".                                                  *)
(***************************************************************************)
C33_TablesConsistent ==
    /\ [](/\ \A c \in DOMAIN aliases : aliases[c] \in DOMAIN options
          /\ \A o \in KeyOrders(options) : \A n \in DOMAIN options :
                 \E i \in DOMAIN o : o[i] = n
          /\ \A i \in 1..Len(results) :
                 results[i].type = "Panic" => args[results[i].tok + 1] = <<Dash>>)
    /\ [][options' = options /\ aliases' = aliases]_vars

\* a character of a group was looked up through an alias that differs from
\* its long name, and a long flag was read before
C33_Witness ==
    /\ Len(args) = 2
    /\ Len(results) >= 3
    /\ IsLongToken(args[1])
    /\ IsEvent(results[1])
    /\ IsGroupToken(args[2])
    /\ IsEvent(Last(results))
    /\ Last(results).tok = 1
    /\ Last(results).name # <<args[2][2]>>


\* the MissingParameter errors whose flag token is followed by a token that
\* starts with a dash
DashAfterOption ==
    {i \in 1..Len(results) :
        /\ results[i].kind = "MissingParameter"
        /\ results[i].tok + 1 < Len(args)
        /\ StartsWith(args[results[i].tok + 2], <<Dash>>)}

(***************************************************************************)
(* C34: the call that reads an Option-kind flag followed by a token that   *)
(* starts with a dash returns MissingParameter with that token consumed:   *)
(* index is past both tokens, remainder() starts after the second, and no  *)
(* result ever comes from the second token.                                *)
(***************************************************************************)
C34_DashParameterConsumed ==
    /\ [][(ReadsOptionFlag /\ index + 1 < Len(args)
               /\ StartsWith(args[index + 2], <<Dash>>)) =>
              /\ Last(results').kind = "MissingParameter"
              /\ index' = index + 2
              /\ remainder' = SubSeq(args, index + 3, Len(args))]_vars
    /\ [](\A i \in DashAfterOption :
              /\ index = results[i].tok + 2
              /\ \A j \in 1..Len(results) : results[j].tok # results[i].tok + 1
              /\ remainder_view.called =>
                     remainder_view.slice = SubSeq(args, results[i].tok + 3, Len(args)))

\* remainder() was called after MissingParameter for an option flag at
\* position 0 followed by a defined switch flag
C34_Witness ==
    /\ DashAfterOption = {1}
    /\ Len(args) = 2
    /\ IsDefinedFlag(args[2])
    /\ remainder_view.called
    /\ idle >= 1


\* the events that carry a value
ValueEvents ==
    {i \in 1..Len(results) :
        IsEvent(results[i]) /\ results[i].kind \in {"Positional", "TrailPart", "Option"}}

(***************************************************************************)
(* C35: the value of every Positional, TrailPart and Option event is a     *)
(* token that does not start with a dash: the token itself for a           *)
(* positional or trail value, the token after the flag for an option.      *)
(***************************************************************************)
C35_NoDashValues ==
    \A i \in ValueEvents :
        /\ ~StartsWith(results[i].value, <<Dash>>)
        /\ results[i].value =
               args[results[i].tok + (IF results[i].kind = "Option" THEN 2 ELSE 1)]

\* an option flag took the non-empty token after it as its parameter
C35_Witness ==
    /\ Len(args) = 2
    /\ ValueEvents = {1}
    /\ results[1].kind = "Option"
    /\ results[1].value # <<>>
    /\ finished


(***************************************************************************)
(* C36: all Positional events come before all TrailPart events; the        *)
(* Positional events name the positional slots in definition order, each   *)
(* slot at most once; and trail_args_found, the number of TrailPart        *)
(* events, is greater than zero only when every positional slot is filled. *)
(***************************************************************************)
C36_PositionalsBeforeTrail ==
    /\ \A i \in 1..Len(results) : \A j \in 1..Len(results) :
           (/\ IsEvent(results[i]) /\ results[i].kind = "TrailPart"
            /\ IsEvent(results[j]) /\ results[j].kind = "Positional") => j < i
    /\ Len(PositionalEvents) <= Len(positional)
    /\ \A k \in 1..Len(PositionalEvents) : PositionalEvents[k].name = positional[k]
    /\ Len(PositionalEvents) = next_position
    /\ trail_args_found = Len(TrailEvents)
    /\ trail_args_found > 0 => next_position = Len(positional)

\* a Positional event was followed by a TrailPart event
C36_Witness ==
    /\ Len(results) = 2
    /\ IsEvent(results[1]) /\ results[1].kind = "Positional"
    /\ IsEvent(results[2]) /\ results[2].kind = "TrailPart"
    /\ trail_args_found = 1
    /\ next_position = Len(positional)


(***************************************************************************)
(* Parse::new followed by the calls of next() and remainder() on the parse *)
(* it returned, for definition lists in which a positional and a switch or *)
(* option have the same name.                                              *)
(***************************************************************************)
SharedNameLists ==
    { \* positional "a", switch "a"/'a', an optional trail
      << DefPositional(<<"a">>), DefSwitch(<<"a">>, "a"), DefOptionalTrail >>,
      \* option "c"/'a', positional "c"
      << DefOption(<<"c">>, "a"), DefPositional(<<"c">>) >> }

InitShared ==
    /\ expected \in SharedNameLists
    /\ args \in ArgLists
    /\ created = FALSE
    /\ error = NoError
    /\ index = 0
    /\ finished = FALSE
    /\ positional = <<>>
    /\ next_position = 0
    /\ trail = "None"
    /\ trail_args_found = 0
    /\ options = EmptyMap
    /\ aliases = EmptyMap
    /\ remaining_grouped_shorts = <<>>
    /\ results = <<>>
    /\ panicked = FALSE
    /\ idle = 0
    /\ remainder_view = NoView
    /\ program = <<>>
    /\ subcommands = {}
    /\ delegation = NoCall

\* the parse exists once Parse::new has returned Ok
NextShared ==
    \/ New
    \/ (created /\ error = NoError /\ Next)

SpecShared == InitShared /\ [][NextShared]_vars

\* the names that a positional and a switch or option of the list share
SharedNames(defs) ==
    {defs[i].name : i \in {k \in 1..Len(defs) :
        /\ defs[k].kind = "Positional"
        /\ \E j \in 1..Len(defs) : IsNamed(defs[j]) /\ defs[j].name = defs[k].name}}

(***************************************************************************)
(* C37: a list with a positional named n and a switch or option with long  *)
(* name n, and no other conflict, compiles; n is then both a positional    *)
(* slot and a key of the option table; every result for a token "--n" is   *)
(* that of the switch or option n; and the slot n is filled by position,   *)
(* with a token that has no dash.                                          *)
(***************************************************************************)
C37_SeparateNamespaces ==
    (created /\ SharedNames(expected) # {} /\ WellFormed(expected)) =>
        /\ error = NoError
        /\ \A n \in SharedNames(expected) :
               /\ n \in DOMAIN options
               /\ \E k \in 1..Len(positional) : positional[k] = n
               /\ \A i \in 1..Len(results) :
                      (results[i].tok # NoTok
                           /\ args[results[i].tok + 1] = <<Dash, Dash>> \o n) =>
                          /\ results[i].kind \in {"Switch", "Option", "MissingParameter"}
                          /\ results[i].kind = "Switch" <=> options[n] = "Switch"
                          /\ results[i].name = n
        /\ \A k \in 1..Len(PositionalEvents) :
               /\ PositionalEvents[k].name = positional[k]
               /\ PositionalEvents[k].value = args[PositionalEvents[k].tok + 1]
               /\ IsPlainToken(PositionalEvents[k].value)

\* "--a" gave the switch "a" and the next token filled the positional "a"
C37_Witness ==
    /\ created
    /\ Len(args) = 2
    /\ Len(results) = 2
    /\ results[1] = OkRes("Switch", <<"a">>, <<>>, 0)
    /\ args[1] = <<Dash, Dash, "a">>
    /\ results[2] = OkRes("Positional", <<"a">>, args[2], 1)

====
